---- MODULE Spec2Model ----
(***************************************************************************)
(* Model of windy-civi/people-research: the legislator research scripts.   *)
(*                                                                         *)
(*   - the JSON extractor (_extract_json_from_response) over response      *)
(*     texts, specification SpecExtract;                                   *)
(*   - the retry controller (research_legislator), specification Spec;     *)
(*   - the staleness filter of the discovery script (_needs_update,        *)
(*     _process_legislator_file), specification SpecStale;                 *)
(*   - discover_legislators over a directory, specification SpecDiscover;  *)
(*   - main and run of simple_researcher, specification SpecBatch;         *)
(*   - consolidate_results of the aggregator, specification SpecCost.      *)
(*                                                                         *)
(* Texts are sequences of tokens.  Every token stands for a fixed piece of *)
(* text, so the regular expressions and json.loads of the source are       *)
(* computed on the token sequence exactly as on its characters.            *)
(***************************************************************************)
EXTENDS Integers, Sequences, FiniteSets, TLC

VARIABLES
    xText,      \* SpecExtract: the response text handed to the extractor
    xOut,       \* SpecExtract: what _extract_json_from_response returned
    xDone,      \* SpecExtract: whether the extractor has run
    subject,    \* Spec: legislator_data, the loaded YAML document
    environ,    \* Spec: os.environ, the variables the code reads
    pc,         \* Spec: position of research_legislator
    attempt,    \* Spec: the loop variable of research_legislator
    nCalls,     \* Spec: number of anthropic.messages.create calls made
    trace,      \* Spec: the service outcomes of this research, in order
    prompts,    \* Spec: the prompts sent to the service, in order
    result,     \* Spec: the value research_legislator returned
    clock,      \* Spec: datetime.now()
    startedAt,  \* Spec: the clock when research_legislator was entered
    dRoles,     \* SpecStale: the roles list of the person file
    dRecord,    \* SpecStale: the stored record file (exists, mtime)
    dForce,     \* SpecStale: LegislatorDiscovery.force_update
    dNow,       \* SpecStale: datetime.now() of the discovery run
    dPc,        \* SpecStale: position of _process_legislator_file
    dNeeds,     \* SpecStale: what _needs_update returned
    dSelected,  \* SpecStale: whether _process_legislator_file returned an info
    gFiles,       \* SpecDiscover: the person files the glob returned, in order
    gForce,       \* SpecDiscover: LegislatorDiscovery.force_update
    gMax,         \* SpecDiscover: LegislatorDiscovery.max_legislators
    gNow,         \* SpecDiscover: datetime.now() of the discovery run
    gNext,        \* SpecDiscover: index of the next file of the loop
    gLegislators, \* SpecDiscover: the list legislators of discover_legislators
    gSelected,    \* SpecDiscover: what discover_legislators returned
    gPc,          \* SpecDiscover: position of discover_legislators
    bFiles,     \* SpecBatch: the person files the glob returned, in order
    bEnv,       \* SpecBatch: the environment and paths of the run
    bPeople,    \* SpecBatch: people_to_research, as indexes into bFiles
    bPos,       \* SpecBatch: index of the next person of the loop of run
    bProcessed, \* SpecBatch: the counter processed of run
    bStore,     \* SpecBatch: the record file stored for each person file
    bEvents,    \* SpecBatch: what happened to each person, in order
    bPc,        \* SpecBatch: position of main of simple_researcher
    bExit,      \* SpecBatch: exit status of the process
    bAgain,     \* SpecBatch: what the run after this one selects, and when
    cFiles,     \* SpecCost: the record files found under data, in order
    cNext,      \* SpecCost: index of the next file of the loop
    cResults,   \* SpecCost: the list results of consolidate_results
    cStats,     \* SpecCost: state_stats of consolidate_results
    cTotal,     \* SpecCost: total_cost, in millionths of a dollar
    cSummary,   \* SpecCost: the summary consolidate_results returned
    cPc,        \* SpecCost: position of consolidate_results
    cRun,       \* SpecCost: which run of main this is; its datetime.now()
    cPrev,      \* SpecCost: the summary of the run before this one
    ePc,        \* SpecTwin: position of research_legislator of the enhanced researcher
    eAttempt,   \* SpecTwin: its loop variable
    eCalls,     \* SpecTwin: number of anthropic.messages.create calls it made
    eRequests,  \* SpecTwin: the arguments of those calls, in order
    eResult,    \* SpecTwin: the value it returned
    eClock      \* SpecTwin: datetime.now() of its run

xVars == <<xText, xOut, xDone>>
rVars == <<subject, environ, pc, attempt, nCalls, trace, prompts, result, clock, startedAt>>
dVars == <<dRoles, dRecord, dForce, dNow, dPc, dNeeds, dSelected>>
gVars == <<gFiles, gForce, gMax, gNow, gNext, gLegislators, gSelected, gPc>>
bVars == <<bFiles, bEnv, bPeople, bPos, bProcessed, bStore, bEvents, bPc, bExit, bAgain>>
cVars == <<cFiles, cNext, cResults, cStats, cTotal, cSummary, cPc, cRun, cPrev>>
eVars == <<ePc, eAttempt, eCalls, eRequests, eResult, eClock>>
vars == <<xVars, rVars, dVars, gVars, bVars, cVars, eVars>>

\* The values the variables of a component hold while a specification of
\* another component runs.
IdleExtract ==
    /\ xText = <<>>
    /\ xOut = [found |-> FALSE, json_str |-> <<>>]
    /\ xDone = FALSE

IdleResearch ==
    /\ subject = [null |-> TRUE]
    /\ environ = <<>>
    /\ pc = "off"
    /\ attempt = 0
    /\ nCalls = 0
    /\ trace = <<>>
    /\ prompts = <<>>
    /\ result = [kind |-> "none"]
    /\ clock = 0
    /\ startedAt = 0

IdleStale ==
    /\ dRoles = <<>>
    /\ dRecord = [exists |-> FALSE, mtime |-> 0]
    /\ dForce = FALSE
    /\ dNow = 0
    /\ dPc = "off"
    /\ dNeeds = FALSE
    /\ dSelected = FALSE

IdleDiscover ==
    /\ gFiles = <<>>
    /\ gForce = FALSE
    /\ gMax = 0
    /\ gNow = 0
    /\ gNext = 0
    /\ gLegislators = <<>>
    /\ gSelected = <<>>
    /\ gPc = "off"

IdleBatch ==
    /\ bFiles = <<>>
    /\ bEnv = <<>>
    /\ bPeople = <<>>
    /\ bPos = 0
    /\ bProcessed = 0
    /\ bStore = <<>>
    /\ bEvents = <<>>
    /\ bPc = "off"
    /\ bExit = 0
    /\ bAgain = <<>>

IdleEnhanced ==
    /\ ePc = "off"
    /\ eAttempt = 0
    /\ eCalls = 0
    /\ eRequests = <<>>
    /\ eResult = <<>>
    /\ eClock = 0

IdleCost ==
    /\ cFiles = <<>>
    /\ cNext = 0
    /\ cResults = <<>>
    /\ cStats = <<>>
    /\ cTotal = 0
    /\ cSummary = <<>>
    /\ cPc = "off"
    /\ cRun = 0
    /\ cPrev = <<>>

(***************************************************************************)
(* Tokens.  LB is "{", RB is "}", LBK is "[", RBK is "]", FENCE is three   *)
(* backticks, LABEL is the word json after a fence, WS is a newline, COMMA *)
(* is ",", Q is a double quote.  A key token is a quoted key with its      *)
(* colon; a member token is a whole member whose value holds no brace,     *)
(* bracket or backtick.  Every other token is prose.                       *)
(***************************************************************************)
LB == "{"
RB == "}"
LBK == "["
RBK == "]"
FENCE == "<fence>"
LABEL == "json"
WS == "<nl>"
COMMA == ","
Q == "<q>"
TXT == "Here is the research you asked for"

K_D == "<q>d<q>:"
K_ISSUES == "<q>issues<q>:"
K_DONORS == "<q>donors<q>:"
K_TOP == "<q>top_companies<q>:"
K_IND == "<q>top_industries<q>:"
K_IDEO == "<q>ideological_donors<q>:"
K_INDIV == "<q>individual_donors<q>:"
K_TITLE == "<q>title<q>:"
KeyTokens == {K_D, K_ISSUES, K_DONORS, K_TOP, K_IND, K_IDEO, K_INDIV, K_TITLE}

KeyName(tok) ==
    CASE tok = K_D -> "d"
      [] tok = K_ISSUES -> "issues"
      [] tok = K_DONORS -> "donors"
      [] tok = K_TOP -> "top_companies"
      [] tok = K_IND -> "top_industries"
      [] tok = K_IDEO -> "ideological_donors"
      [] tok = K_INDIV -> "individual_donors"
      [] tok = K_TITLE -> "title"

M_A == "<q>a<q>:1"
M_B == "<q>b<q>:2"
M_ERROR == "<q>error<q>:<q>no data found<q>"
M_NAME == "<q>name<q>:<q>Test Legislator<q>"
M_PM == "<q>processing_metadata<q>:true"
M_DATA_SOURCE == "<q>data_source<q>:<q>Error occurred<q>"
M_SOURCE_URL == "<q>source_url<q>:<q><q>"
MemberTokens == {M_A, M_B, M_ERROR, M_NAME, M_PM, M_DATA_SOURCE, M_SOURCE_URL}

MemberKey(tok) ==
    CASE tok = M_A -> "a"
      [] tok = M_B -> "b"
      [] tok = M_ERROR -> "error"
      [] tok = M_NAME -> "name"
      [] tok = M_PM -> "processing_metadata"
      [] tok = M_DATA_SOURCE -> "data_source"
      [] tok = M_SOURCE_URL -> "source_url"

MemberValue(tok) ==
    CASE tok = M_A -> <<"1">>
      [] tok = M_B -> <<"2">>
      [] tok = M_ERROR -> <<Q, "no data found", Q>>
      [] tok = M_NAME -> <<Q, "Test Legislator", Q>>
      [] tok = M_PM -> <<"true">>
      [] tok = M_DATA_SOURCE -> <<Q, "Error occurred", Q>>
      [] tok = M_SOURCE_URL -> <<Q, Q>>

\* Tokens that hold a double quote, and the raw newline: none may stand
\* inside a JSON string.
EndsString == {Q, WS} \cup KeyTokens \cup MemberTokens

(***************************************************************************)
(* json.loads on a token sequence: the strict JSON grammar over the tokens *)
(* above.  A parsed object is a function from its keys to the compact      *)
(* serialisation of their values (a later duplicate key wins, as in a      *)
(* Python dict).                                                           *)
(***************************************************************************)
EOT == "<eof>"
EmptyObj == [k \in {} |-> <<>>]
ParseFail == [ok |-> FALSE, next |-> 0, fields |-> EmptyObj]

At(t, i) == IF i >= 1 /\ i <= Len(t) THEN t[i] ELSE EOT

\* The first position at or after i that holds no whitespace.
SkipWS(t, i) ==
    CHOOSE j \in i..(Len(t) + 1) :
        /\ At(t, j) # WS
        /\ \A k \in i..(j - 1) : t[k] = WS

Compact(t) == SelectSeq(t, LAMBDA tok : tok # WS)

\* str.strip(): leading and trailing whitespace removed.
Strip(t) ==
    IF \A i \in 1..Len(t) : t[i] = WS
    THEN <<>>
    ELSE LET a == CHOOSE i \in 1..Len(t) : t[i] # WS /\ \A k \in 1..(i - 1) : t[k] = WS
             b == CHOOSE i \in 1..Len(t) : t[i] # WS /\ \A k \in (i + 1)..Len(t) : t[k] = WS
         IN SubSeq(t, a, b)

\* A string: an opening quote, tokens without quote or raw newline, a quote.
ParseString(t, i) ==
    LET j == CHOOSE n \in (i + 1)..(Len(t) + 1) :
                 /\ At(t, n) \in EndsString \cup {EOT}
                 /\ \A k \in (i + 1)..(n - 1) : t[k] \notin EndsString
    IN IF At(t, j) = Q
       THEN [ok |-> TRUE, next |-> j + 1, fields |-> EmptyObj]
       ELSE ParseFail

RECURSIVE ParseValue(_, _)
RECURSIVE ParseMembers(_, _, _)
RECURSIVE ParseElements(_, _)

ParseObject(t, i) ==
    LET j == SkipWS(t, i + 1)
    IN IF At(t, j) = RB
       THEN [ok |-> TRUE, next |-> j + 1, fields |-> EmptyObj]
       ELSE ParseMembers(t, j, EmptyObj)

ParseArray(t, i) ==
    LET j == SkipWS(t, i + 1)
    IN IF At(t, j) = RBK
       THEN [ok |-> TRUE, next |-> j + 1, fields |-> EmptyObj]
       ELSE ParseElements(t, j)

ParseValue(t, i) ==
    CASE At(t, i) = LB -> ParseObject(t, i)
      [] At(t, i) = LBK -> ParseArray(t, i)
      [] At(t, i) = Q -> ParseString(t, i)
      [] OTHER -> ParseFail

\* The members of an object from position j on, acc holding those read.
ParseMembers(t, j, acc) ==
    LET tok == At(t, j)
        vstart == SkipWS(t, j + 1)
        v == IF tok \in KeyTokens THEN ParseValue(t, vstart) ELSE ParseFail
        isMember == tok \in MemberTokens
        good == isMember \/ v.ok
        key == IF isMember THEN MemberKey(tok) ELSE KeyName(tok)
        val == IF isMember THEN MemberValue(tok)
               ELSE Compact(SubSeq(t, vstart, v.next - 1))
        after == IF isMember THEN j + 1 ELSE v.next
        acc2 == [k \in DOMAIN acc \cup {key} |-> IF k = key THEN val ELSE acc[k]]
        n == SkipWS(t, after)
    IN IF ~good THEN ParseFail
       ELSE IF At(t, n) = RB THEN [ok |-> TRUE, next |-> n + 1, fields |-> acc2]
       ELSE IF At(t, n) = COMMA THEN ParseMembers(t, SkipWS(t, n + 1), acc2)
       ELSE ParseFail

\* The elements of an array from position j on.
ParseElements(t, j) ==
    LET v == ParseValue(t, j)
        n == SkipWS(t, v.next)
    IN IF ~v.ok THEN ParseFail
       ELSE IF At(t, n) = RBK THEN [ok |-> TRUE, next |-> n + 1, fields |-> EmptyObj]
       ELSE IF At(t, n) = COMMA THEN ParseElements(t, SkipWS(t, n + 1))
       ELSE ParseFail

\* json.loads(s): one value, then nothing but whitespace.
JsonLoads(t) ==
    LET v == ParseValue(t, SkipWS(t, 1))
    IN IF v.ok /\ SkipWS(t, v.next) = Len(t) + 1 THEN v ELSE ParseFail

(***************************************************************************)
(* re.findall for the three patterns of the extractor, in the order of the *)
(* source's list.                                                          *)
(***************************************************************************)
Patterns == <<"basic", "json_block", "generic_block">>

\* r'\{[\s\S]*\}': from the first "{" to the last "}" of the text (greedy),
\* so at most one match.
BasicMatches(t) ==
    LET opens == {i \in 1..Len(t) : t[i] = LB}
        first == CHOOSE i \in opens : \A k \in opens : i <= k
        closes == {j \in 1..Len(t) : t[j] = RB /\ j > first}
        last == CHOOSE j \in closes : \A k \in closes : k <= j
    IN IF opens = {} THEN <<>>
       ELSE IF closes = {} THEN <<>>
       ELSE <<SubSeq(t, first, last)>>

\* A match of r'```json\s*(\{[\s\S]*?\})\s*```' (labeled) or of
\* r'```\s*(\{[\s\S]*?\})\s*```' starting at position i: the group runs from
\* the "{" to the nearest "}" that whitespace and a fence follow.
FenceMatchAt(t, i, labeled) ==
    LET a == IF labeled THEN i + 2 ELSE i + 1
        b == SkipWS(t, a)
        ends == {e \in (b + 1)..Len(t) : t[e] = RB /\ At(t, SkipWS(t, e + 1)) = FENCE}
        e0 == CHOOSE e \in ends : \A k \in ends : e <= k
        opened == /\ At(t, i) = FENCE
                  /\ (labeled => At(t, i + 1) = LABEL)
                  /\ At(t, b) = LB
    IN IF opened /\ ends # {}
       THEN [ok |-> TRUE, group |-> SubSeq(t, b, e0), end |-> SkipWS(t, e0 + 1)]
       ELSE [ok |-> FALSE, group |-> <<>>, end |-> 0]

\* The groups of the non-overlapping matches found scanning from pos.
RECURSIVE FenceMatches(_, _, _)
FenceMatches(t, pos, labeled) ==
    LET starts == {i \in pos..Len(t) : FenceMatchAt(t, i, labeled).ok}
        i0 == CHOOSE i \in starts : \A k \in starts : i <= k
        m == FenceMatchAt(t, i0, labeled)
    IN IF starts = {} THEN <<>>
       ELSE <<m.group>> \o FenceMatches(t, m.end + 1, labeled)

FindAll(pattern, t) ==
    CASE pattern = "basic" -> BasicMatches(t)
      [] pattern = "json_block" -> FenceMatches(t, 1, TRUE)
      [] pattern = "generic_block" -> FenceMatches(t, 1, FALSE)

(***************************************************************************)
(* _extract_json_from_response: for each pattern in order, for each match  *)
(* in order, the stripped match is returned if json.loads accepts it.      *)
(***************************************************************************)
NoMatch == [found |-> FALSE, json_str |-> <<>>]

RECURSIVE FirstValid(_, _)
FirstValid(matches, k) ==
    IF k > Len(matches) THEN NoMatch
    ELSE IF JsonLoads(Strip(matches[k])).ok
         THEN [found |-> TRUE, json_str |-> Strip(matches[k])]
         ELSE FirstValid(matches, k + 1)

RECURSIVE TryPatterns(_, _, _)
TryPatterns(order, t, p) ==
    IF p > Len(order) THEN NoMatch
    ELSE LET m == FirstValid(FindAll(order[p], t), 1)
         IN IF m.found THEN m ELSE TryPatterns(order, t, p + 1)

FencedFirst_extract_json_from_response(response_text) ==
    TryPatterns(<<"json_block", "generic_block", "basic">>, response_text, 1)

_extract_json_from_response(response_text) ==
    TryPatterns(Patterns, response_text, 1)

(***************************************************************************)
(* Python values.  A mapping (dict, the YAML document, a role entry) is a  *)
(* function from its keys; None is the record NullValue.  A string value   *)
(* of a record is kept as its JSON serialisation: quote, text, quote.      *)
(***************************************************************************)
NullValue == [null |-> TRUE]
IsMap(d) == "null" \notin DOMAIN d

\* dict.get(key, default)
Get(d, key, default) == IF key \in DOMAIN d THEN d[key] ELSE default

Str(text) == IF text = "" THEN <<Q, Q>> ELSE <<Q, text, Q>>
EmptyList == <<LBK, RBK>>

\* The message of the AttributeError that .get on None raises.
AttributeErrorNone == "'NoneType' object has no attribute 'get'"

LegislativeTypes == {"upper", "lower", "legislature"}

(***************************************************************************)
(* create_research_prompt.  The prompt is kept as the values the template  *)
(* interpolates; the wording is fixed text.  The loop over the roles       *)
(* raises at the first entry that is no mapping, unless it broke out       *)
(* before reaching it.                                                     *)
(***************************************************************************)
\* Index of the role the loop of lines 66-69 stops at, 0 if it runs through.
FirstOpenRole(roles) ==
    LET hits == {i \in 1..Len(roles) :
                    /\ IsMap(roles[i])
                    /\ Get(roles[i], "type", "") \in LegislativeTypes
                    /\ "end_date" \notin DOMAIN roles[i]}
    IN IF hits = {} THEN 0 ELSE CHOOSE i \in hits : \A k \in hits : i <= k

\* Whether the loop calls .get on an entry that is no mapping.
RolesLoopRaises(roles) ==
    LET stop == FirstOpenRole(roles)
    IN \E i \in 1..Len(roles) : ~IsMap(roles[i]) /\ (stop = 0 \/ i < stop)

create_research_prompt(legislator_data) ==
    IF ~IsMap(legislator_data)
    THEN [ok |-> FALSE, error |-> AttributeErrorNone]
    ELSE
    LET partyList == Get(legislator_data, "party", <<>>)
        roles == Get(legislator_data, "roles", <<>>)
        stop == FirstOpenRole(roles)
    IN IF partyList # <<>> /\ ~IsMap(partyList[1])
       THEN [ok |-> FALSE, error |-> AttributeErrorNone]
       ELSE IF RolesLoopRaises(roles)
       THEN [ok |-> FALSE, error |-> AttributeErrorNone]
       ELSE [ok |-> TRUE,
             prompt |->
               [name |-> Get(legislator_data, "name", "Unknown"),
                party |-> IF partyList # <<>>
                          THEN Get(partyList[1], "name", "Unknown") ELSE "Unknown",
                state |-> IF stop # 0
                          THEN Get(roles[stop], "jurisdiction", "Unknown") ELSE "Unknown",
                district |-> IF stop # 0 THEN Get(roles[stop], "district", "") ELSE "",
                chamber |-> IF stop # 0
                            THEN Get(roles[stop], "type", "legislature") ELSE "legislature",
                legislator_id |-> Get(legislator_data, "id", ""),
                retry_attempt |-> 0]]

(***************************************************************************)
(* research_legislator of LegislatorResearcher.  A returned record is      *)
(* [kind, fields, meta]: fields maps every key but processing_metadata to  *)
(* its serialised value, meta is the processing_metadata mapping.          *)
(***************************************************************************)
OneMoreRetry == 2 + 1

max_retries == 2
ModelId == "claude-sonnet-4-20250514"
NoTextResponse == <<"No text response received">>
SpecNoJsonMessage == "No valid JSON found in response after all retries"
NoJsonMessage == "No valid JSON found in Claude response after all retries"
InvalidJsonMessage == "Invalid JSON structure"

\* os.environ.get("GITHUB_RUN_ID", "unknown")
RunId(env) == Get(env, "GITHUB_RUN_ID", "unknown")

ErrorDonors ==
    <<LB, K_TOP, LBK, RBK, COMMA, K_IND, LBK, RBK, COMMA, K_IDEO, LBK, RBK, COMMA,
      K_INDIV, LBK, RBK, COMMA, M_DATA_SOURCE, COMMA, M_SOURCE_URL, RB>>

\* Whether _create_error_response raises: roles[0].get on a first entry
\* that is no mapping.
ErrorResponseRaises(legislator_data) ==
    LET roles == Get(legislator_data, "roles", <<>>)
    IN roles # <<>> /\ ~IsMap(roles[1])

BodylessError_create_error_response(legislator_data, error_message, env, now) ==
    LET roles == Get(legislator_data, "roles", <<>>)
    IN [kind |-> "record",
        fields |->
          [legislator_id |-> Str(Get(legislator_data, "id", "")),
           name |-> Str(Get(legislator_data, "name", "Unknown")),
           state |-> Str(IF roles # <<>>
                         THEN Get(roles[1], "jurisdiction", "Unknown") ELSE "Unknown"),
           error |-> Str(error_message),
           last_updated |-> Str(ToString(now)),
           sources |-> EmptyList],
        meta |->
          [processed_date |-> now,
           github_action_run |-> RunId(env),
           error |-> TRUE,
           model |-> ModelId]]

_create_error_response(legislator_data, error_message, env, now) ==
    LET roles == Get(legislator_data, "roles", <<>>)
    IN [kind |-> "record",
        fields |->
          [legislator_id |-> Str(Get(legislator_data, "id", "")),
           name |-> Str(Get(legislator_data, "name", "Unknown")),
           state |-> Str(IF roles # <<>>
                         THEN Get(roles[1], "jurisdiction", "Unknown") ELSE "Unknown"),
           error |-> Str(error_message),
           last_updated |-> Str(ToString(now)),
           issues |-> EmptyList,
           donors |-> ErrorDonors,
           sources |-> EmptyList],
        meta |->
          [processed_date |-> now,
           github_action_run |-> RunId(env),
           error |-> TRUE,
           model |-> ModelId]]

\* Lines 209-211, the except clause: the log line reads legislator_data,
\* then the error record is built and returned.  An exception raised here
\* leaves research_legislator.
Raised(message) == [next |-> "raised", result |-> [kind |-> "exception", message |-> message]]

RetryingExceptHandler(legislator_data, e, att, env, now) ==
    IF att < max_retries
    THEN [next |-> "loop", result |-> [kind |-> "none"]]
    ELSE [next |-> "returned", result |-> _create_error_response(legislator_data, e, env, now)]

GenericMessageExceptHandler(legislator_data, e, att, env, now) ==
    [next |-> "returned",
     result |-> _create_error_response(legislator_data, "Research failed", env, now)]

ExceptHandler(legislator_data, e, att, env, now) ==
    IF ~IsMap(legislator_data) THEN Raised(AttributeErrorNone)
    ELSE IF ErrorResponseRaises(legislator_data) THEN Raised(AttributeErrorNone)
    ELSE [next |-> "returned",
          result |-> _create_error_response(legislator_data, e, env, now)]

\* Lines 182-193: the parsed object with processing_metadata set.
WithoutKey(f, key) == [k \in DOMAIN f \ {key} |-> f[k]]

UntracedDecorate(json_data, usage, env, now) ==
    [kind |-> "record",
     fields |-> WithoutKey(json_data, "processing_metadata"),
     meta |->
       [processed_date |-> now,
        github_action_run |-> "unknown",
        tokens_used |-> [input_tokens |-> "unknown", output_tokens |-> "unknown"],
        model |-> ModelId]]

Decorate(json_data, usage, env, now) ==
    [kind |-> "record",
     fields |-> WithoutKey(json_data, "processing_metadata"),
     meta |->
       [processed_date |-> now,
        github_action_run |-> RunId(env),
        tokens_used |->
          [input_tokens |-> IF usage.present THEN usage.input_tokens ELSE "unknown",
           output_tokens |-> IF usage.present THEN usage.output_tokens ELSE "unknown"],
        model |-> ModelId]]

\* Lines 168-173: the text of the first text block of the message.
FinalResponse(content) ==
    LET texts == SelectSeq(content, LAMBDA block : block.type = "text")
    IN IF texts # <<>> THEN texts[1].text ELSE NoTextResponse

\* Lines 198-207: no JSON was found in this attempt's response.
EarlyGiveUp(legislator_data, att, env, now) ==
    ExceptHandler(legislator_data, NoJsonMessage, att, env, now)

NoJsonFound(legislator_data, att, env, now) ==
    IF att = max_retries
    THEN ExceptHandler(legislator_data, NoJsonMessage, att, env, now)
    ELSE [next |-> "loop", result |-> [kind |-> "none"]]

\* Lines 176-207: what the loop body does with the message of the service.
HandleMessage(legislator_data, message, att, env, now) ==
    LET json_match == _extract_json_from_response(FinalResponse(message.content))
        loaded == JsonLoads(json_match.json_str)
    IN IF json_match.found
       THEN IF loaded.ok
            THEN [next |-> "returned",
                  result |-> Decorate(loaded.fields, message.usage, env, now)]
            ELSE ExceptHandler(legislator_data, InvalidJsonMessage, att, env, now)
       ELSE NoJsonFound(legislator_data, att, env, now)

\* A prompt that carries the retry instruction on every attempt.
AlwaysStrictPromptFor(base, att) == [base EXCEPT !.retry_attempt = att + 1]

\* Lines 155-156: the retry instruction names attempt + 1.
PromptFor(base, att) ==
    IF att > 0 THEN [base EXCEPT !.retry_attempt = att + 1] ELSE base

(***************************************************************************)
(* SpecExtract: the extractor applied to every text of at most MaxParts    *)
(* parts.                                                                  *)
(***************************************************************************)
MaxParts == 3

Parts ==
    { <<TXT>>,
      <<LB, M_A, RB>>,
      <<FENCE, LABEL, WS, LB, M_B, RB, WS, FENCE>>,
      <<FENCE, WS, LB, M_NAME, RB, WS, FENCE>>,
      <<FENCE, LB, RB, FENCE>>,
      <<FENCE, LABEL, LB, RB, FENCE>>,
      <<LB, K_D, Q>>,
      <<Q, RB>>,
      <<LB>>,
      <<RB>> }

RECURSIVE TextsOf(_)
TextsOf(n) ==
    IF n = 0 THEN {<<>>}
    ELSE LET shorter == TextsOf(n - 1)
         IN shorter \cup {t \o p : t \in shorter, p \in Parts}

InitExtract ==
    /\ xText \in TextsOf(MaxParts)
    /\ xOut = NoMatch
    /\ xDone = FALSE
    /\ subject = [null |-> TRUE]
    /\ environ = EmptyObj
    /\ pc = "off"
    /\ attempt = 0
    /\ nCalls = 0
    /\ trace = <<>>
    /\ prompts = <<>>
    /\ result = [kind |-> "none"]
    /\ clock = 0
    /\ startedAt = 0
    /\ dRoles = <<>>
    /\ dRecord = [exists |-> FALSE, mtime |-> 0]
    /\ dForce = FALSE
    /\ dNow = 0
    /\ dPc = "off"
    /\ dNeeds = FALSE
    /\ dSelected = FALSE
    /\ IdleDiscover
    /\ IdleBatch
    /\ IdleCost
    /\ IdleEnhanced

Extract ==
    /\ ~xDone
    /\ xOut' = _extract_json_from_response(xText)
    /\ xDone' = TRUE
    /\ UNCHANGED <<xText, rVars, dVars, gVars, bVars, cVars, eVars>>

NextExtract == Extract

SpecExtract == InitExtract /\ [][NextExtract]_vars

(***************************************************************************)
(* Spec: one call of research_legislator, one action per pass of its loop. *)
(***************************************************************************)
OpenRole == [type |-> "upper", jurisdiction |-> "ak", district |-> "District A"]
EndedRole == [type |-> "lower", jurisdiction |-> "tx", district |-> "12",
              end_date |-> "2020-01-01"]

Subjects ==
    { \* a complete record, as in the discovery test
      [id |-> "ocd-person/1", name |-> "Test Legislator",
       party |-> <<[name |-> "Democratic"]>>, roles |-> <<OpenRole>>],
      \* missing fields
      EmptyObj,
      \* an empty roles list
      [id |-> "ocd-person/2", name |-> "No Roles", roles |-> <<>>],
      \* an ended role first, then the current one
      [id |-> "ocd-person/3", name |-> "Moved Chamber", roles |-> <<EndedRole, OpenRole>>],
      \* a party entry that is no mapping
      [id |-> "ocd-person/4", name |-> "Bad Party", party |-> <<NullValue>>,
       roles |-> <<OpenRole>>],
      \* a roles list whose first entry is no mapping
      [id |-> "ocd-person/5", name |-> "Bad Roles", roles |-> <<NullValue>>],
      \* the empty YAML document
      NullValue }

Environs == {EmptyObj, [GITHUB_RUN_ID |-> "9001"]}

IssuesOne == <<K_ISSUES, LBK, LB, K_TITLE, Q, "Tax reform", Q, RB, RBK>>

ResponseTexts ==
    { \* a JSON-labeled fenced block followed by prose
      <<FENCE, LABEL, WS, LB, M_A, RB, WS, FENCE, TXT>>,
      \* the bare object the prompt asks for
      <<LB, M_NAME, COMMA, WS>> \o IssuesOne \o <<RB>>,
      \* an object that itself has an error member and issues
      <<LB, M_ERROR, COMMA>> \o IssuesOne \o <<RB>>,
      \* an object with a processing_metadata member of its own
      <<LB, M_PM, COMMA, M_A, RB>>,
      \* prose only
      <<TXT>>,
      \* a brace that never closes
      <<LB, M_A>>,
      \* two objects with prose between them
      <<LB, M_A, RB, TXT, LB, M_B, RB>> }

NoUsage == [present |-> FALSE]
CountedUsage == [present |-> TRUE, input_tokens |-> 1200, output_tokens |-> 450]

Contents ==
    {<<>>}
    \cup {<<[type |-> "text", text |-> t]>> : t \in ResponseTexts}
    \cup {<<[type |-> "tool_use", text |-> <<>>], [type |-> "text", text |-> <<LB, M_B, RB>>]>>}

TransportErrors == {"Connection error.", "Error code: 401 - invalid x-api-key"}

\* What anthropic.messages.create does: it raises, or returns a message
\* (with its usage counts, or, for two of the messages, without).
Outcomes ==
    {[kind |-> "raise", message |-> m] : m \in TransportErrors}
    \cup {[kind |-> "message", content |-> c, usage |-> CountedUsage] : c \in Contents}
    \cup {[kind |-> "message", content |-> <<[type |-> "text", text |-> t]>>, usage |-> NoUsage] :
            t \in {<<LB, M_A, RB>>}}

Init ==
    /\ subject \in Subjects
    /\ environ \in Environs
    /\ pc = "loop"
    /\ attempt = 0
    /\ nCalls = 0
    /\ trace = <<>>
    /\ prompts = <<>>
    /\ result = [kind |-> "none"]
    /\ clock = 0
    /\ startedAt = 0
    /\ xText = <<>>
    /\ xOut = NoMatch
    /\ xDone = FALSE
    /\ dRoles = <<>>
    /\ dRecord = [exists |-> FALSE, mtime |-> 0]
    /\ dForce = FALSE
    /\ dNow = 0
    /\ dPc = "off"
    /\ dNeeds = FALSE
    /\ dSelected = FALSE
    /\ IdleDiscover
    /\ IdleBatch
    /\ IdleCost
    /\ IdleEnhanced

\* One pass of the loop of lines 150-211: the prompt is built, the service
\* is called, its answer handled.  The service call takes one tick.
ResearchStep(outcome) ==
    LET built == create_research_prompt(subject)
        now == IF built.ok THEN clock + 1 ELSE clock
        step == IF ~built.ok
                THEN ExceptHandler(subject, built.error, attempt, environ, now)
                ELSE IF outcome.kind = "raise"
                THEN ExceptHandler(subject, outcome.message, attempt, environ, now)
                ELSE HandleMessage(subject, outcome, attempt, environ, now)
    IN /\ clock' = now
       /\ nCalls' = IF built.ok THEN nCalls + 1 ELSE nCalls
       /\ trace' = IF built.ok THEN Append(trace, outcome) ELSE trace
       /\ prompts' = IF built.ok
                     THEN Append(prompts, PromptFor(built.prompt, attempt))
                     ELSE prompts
       /\ pc' = step.next
       /\ result' = step.result
       /\ attempt' = IF step.next = "loop" THEN attempt + 1 ELSE attempt

Attempt(outcome) ==
    /\ pc = "loop"
    /\ ResearchStep(outcome)
    /\ UNCHANGED <<subject, environ, startedAt, xVars, dVars, gVars, bVars, cVars, eVars>>

Next == \E outcome \in Outcomes : Attempt(outcome)

Spec == Init /\ [][Next]_vars

(***************************************************************************)
(* Properties of research_legislator, checked under Spec.                  *)
(***************************************************************************)
\* The candidate spans of a text: every match of every pattern.
AllCandidates(text) ==
    UNION {{FindAll(Patterns[p], text)[k] : k \in 1..Len(FindAll(Patterns[p], text))} :
              p \in 1..Len(Patterns)}

HasParseableCandidate(text) ==
    \E c \in AllCandidates(text) : JsonLoads(Strip(c)).ok

\* The service answered and its text holds no candidate that parses.
Unparseable(outcome) ==
    /\ outcome.kind = "message"
    /\ ~HasParseableCandidate(FinalResponse(outcome.content))

Parseable(outcome) ==
    /\ outcome.kind = "message"
    /\ HasParseableCandidate(FinalResponse(outcome.content))

AllUnparseable == \A i \in 1..Len(trace) : Unparseable(trace[i])

IsErrorRecord(r) == r.kind = "record" /\ "error" \in DOMAIN r.fields

DonorLists == {"top_companies", "top_industries", "ideological_donors", "individual_donors"}

EmptyBody(r) ==
    /\ Get(r.fields, "issues", <<>>) = EmptyList
    /\ LET donors == JsonLoads(Get(r.fields, "donors", <<>>))
       IN donors.ok /\ \A k \in DonorLists : Get(donors.fields, k, <<>>) = EmptyList

\* This call ended on a failure path: no prompt could be built, the service
\* call failed, or the last response held nothing that parses.
FailurePath ==
    \/ trace = <<>>
    \/ trace[Len(trace)].kind = "raise"
    \/ Unparseable(trace[Len(trace)])

\* C1: research never raises: whatever the subject record and the service
\* outcomes, the call ends by returning a record, and on every failure path
\* that record has error populated.
C1_ResearchNeverRaises ==
    /\ pc # "raised"
    /\ pc = "returned" => result.kind = "record"
    /\ (pc = "returned" /\ FailurePath) => IsErrorRecord(result)

\* C2: one call of research invokes the service at most three times, with
\* attempt counters 0, 1 and 2; once a call has been made it ends by
\* returning a record, never without one and never after a fourth attempt.
C2_AtMostThreeAttempts ==
    /\ nCalls <= 3
    /\ Len(trace) = nCalls
    /\ attempt \in {0, 1, 2}
    /\ pc = "loop" => nCalls = attempt
    /\ pc = "returned" => result.kind = "record" /\ nCalls <= attempt + 1
    /\ pc = "raised" => nCalls = 0
    /\ pc = "loop" => ENABLED Next

C2_Witness_ThirdAttemptReturns == pc = "returned" /\ nCalls = 3 /\ attempt = 2

\* C3: a failure of the service call is never retried: whichever attempt it
\* happens on, it is the last call, and research returns an error record;
\* a failure on the first attempt means exactly one call.
C3_TransportFailureNotRetried ==
    \A i \in 1..Len(trace) :
        trace[i].kind = "raise" =>
            /\ i = Len(trace)
            /\ nCalls = i
            /\ pc = "returned"
            /\ IsErrorRecord(result)

C3_Witness_FailureAfterRetry ==
    /\ Len(trace) = 2
    /\ Unparseable(trace[1])
    /\ trace[2].kind = "raise"
    /\ pc = "returned"
    /\ nCalls = 2

\* C4: while the service answers without parseable JSON, research goes on to
\* another attempt as long as one remains, and returns an error record only
\* after exactly three calls.
C4_ExtractionFailureRetried ==
    (trace # <<>> /\ AllUnparseable) =>
        IF Len(trace) < 3
        THEN pc = "loop" /\ attempt = Len(trace) /\ result.kind = "none"
        ELSE pc = "returned" /\ nCalls = 3 /\ IsErrorRecord(result)

C4_Witness_ThreeUnparseable ==
    /\ Len(trace) = 3
    /\ AllUnparseable
    /\ pc = "returned"
    /\ IsErrorRecord(result)

\* C5 as stated: after three responses without parseable JSON the record's
\* error is "No valid JSON found in response after all retries", with empty
\* issues and donors.
C5_SpecErrorString ==
    (Len(trace) = 3 /\ AllUnparseable /\ pc = "returned") =>
        /\ Get(result.fields, "error", <<>>) = Str(SpecNoJsonMessage)
        /\ EmptyBody(result)

\* C5 amended: after three responses without parseable JSON the record's
\* error is "No valid JSON found in Claude response after all retries", with
\* empty issues and empty donor sequences.
C5_ClaudeErrorString ==
    (Len(trace) = 3 /\ AllUnparseable /\ pc = "returned") =>
        /\ Get(result.fields, "error", <<>>) =
               Str("No valid JSON found in Claude response after all retries")
        /\ EmptyBody(result)

C5_Witness_ExhaustedRecord ==
    /\ Len(trace) = 3
    /\ AllUnparseable
    /\ pc = "returned"
    /\ EmptyBody(result)
    /\ result.fields["error"] = Str("No valid JSON found in Claude response after all retries")

\* The parsed object of a candidate span, without its processing_metadata.
BodyOf(c) == WithoutKey(JsonLoads(Strip(c)).fields, "processing_metadata")

\* The processing_metadata a successful record must hold: the timestamp, the
\* run identifier of the environment, the usage counts of the message and
\* the model identifier.
SuccessMeta(m, message) ==
    /\ DOMAIN m = {"processed_date", "github_action_run", "tokens_used", "model"}
    /\ m.processed_date \in startedAt..clock
    /\ m.github_action_run =
           (IF "GITHUB_RUN_ID" \in DOMAIN environ THEN environ["GITHUB_RUN_ID"] ELSE "unknown")
    /\ m.tokens_used =
           (IF message.usage.present
            THEN [input_tokens |-> message.usage.input_tokens,
                  output_tokens |-> message.usage.output_tokens]
            ELSE [input_tokens |-> "unknown", output_tokens |-> "unknown"])
    /\ m.model = "claude-sonnet-4-20250514"

\* C7: a response holding a parseable candidate ends research on that very
\* attempt: it is the last service call, and the record returned is the
\* parsed object, every field unchanged, with processing_metadata holding
\* the timestamp, the run identifier, the usage counts and the model.
C7_ParseableResponseReturned ==
    \A i \in 1..Len(trace) :
        Parseable(trace[i]) =>
            /\ i = Len(trace)
            /\ nCalls = i
            /\ pc = "returned"
            /\ result.kind = "record"
            /\ \E c \in AllCandidates(FinalResponse(trace[i].content)) :
                   JsonLoads(Strip(c)).ok /\ result.fields = BodyOf(c)
            /\ SuccessMeta(result.meta, trace[i])

C7_Witness_FencedBlockFirstAttempt ==
    /\ Len(trace) = 1
    /\ trace[1].kind = "message"
    /\ FinalResponse(trace[1].content) = <<FENCE, LABEL, WS, LB, M_A, RB, WS, FENCE, TXT>>
    /\ pc = "returned"
    /\ result.kind = "record"
    /\ result.fields = [a |-> <<"1">>]
    /\ result.meta.github_action_run = "9001"

\* C8 as stated: every record research returns is either a parsed body with
\* no error field, or has error present with empty issues and donors.
C8_NoMixedRecord ==
    pc = "returned" =>
        \/ "error" \notin DOMAIN result.fields
        \/ ("error" \in DOMAIN result.fields /\ EmptyBody(result))

\* C8 amended: every record research returns is either an error record the
\* extractor built itself (error flag set in processing_metadata), which has
\* error present with empty issues and empty donor sequences, or the parsed
\* body exactly as the model returned it (no error flag), which is not
\* validated and so may itself hold an error field next to issues.
C8_OnlyBuiltErrorRecordsAreEmpty ==
    pc = "returned" =>
        IF "error" \in DOMAIN result.meta
        THEN /\ "error" \in DOMAIN result.fields
             /\ EmptyBody(result)
             /\ FailurePath
        ELSE /\ trace # <<>>
             /\ Parseable(trace[Len(trace)])
             /\ \E c \in AllCandidates(FinalResponse(trace[Len(trace)].content)) :
                    JsonLoads(Strip(c)).ok /\ result.fields = BodyOf(c)

C8_Witness_ParsedBodyWithError ==
    /\ pc = "returned"
    /\ "error" \notin DOMAIN result.meta
    /\ "error" \in DOMAIN result.fields
    /\ Get(result.fields, "issues", <<>>) # EmptyList
    /\ Get(result.fields, "issues", <<>>) # <<>>

\* C9: the record returned for a failed service call carries the exception's
\* message in error and has the error flag set in processing_metadata; the
\* processing_metadata of a successful record has no error flag.
C9_TransportErrorRecord ==
    (pc = "returned" /\ trace # <<>>) =>
        LET last == trace[Len(trace)]
        IN /\ last.kind = "raise" =>
                  /\ Get(result.fields, "error", <<>>) = Str(last.message)
                  /\ "error" \in DOMAIN result.meta
                  /\ result.meta.error = TRUE
           /\ Parseable(last) => "error" \notin DOMAIN result.meta

C9_Witness_FailedCallRecord ==
    /\ pc = "returned"
    /\ Len(trace) = 1
    /\ trace[1].kind = "raise"
    /\ result.fields["error"] = Str("Connection error.")
    /\ result.meta.error = TRUE

\* The prompt without its retry instruction.
BasePart(prompt) == [prompt EXCEPT !.retry_attempt = 0]

\* C19: the prompt of the first attempt carries no retry instruction, the
\* prompt of every later attempt carries the strict-JSON instruction naming
\* that attempt, and without the instruction every prompt of a research
\* interpolates the same values, those of the subject.
C19_RetryPromptOnLaterAttempts ==
    \A i \in 1..Len(prompts) :
        /\ prompts[i].retry_attempt = (IF i = 1 THEN 0 ELSE i)
        /\ BasePart(prompts[i]) = BasePart(prompts[1])
        /\ prompts[i].name = Get(subject, "name", "Unknown")
        /\ prompts[i].legislator_id = Get(subject, "id", "")

C19_Witness_ThirdPrompt ==
    /\ Len(prompts) = 3
    /\ prompts[1].retry_attempt = 0
    /\ prompts[2].retry_attempt = 2
    /\ prompts[3].retry_attempt = 3
    /\ prompts[3].name = "Moved Chamber"

(***************************************************************************)
(* Properties of _extract_json_from_response, checked under SpecExtract.   *)
(***************************************************************************)
ParsingIndexes(matches) == {k \in 1..Len(matches) : JsonLoads(Strip(matches[k])).ok}

FirstParsing(matches) ==
    LET ks == ParsingIndexes(matches)
    IN [found |-> TRUE, json_str |-> Strip(matches[CHOOSE k \in ks : \A j \in ks : k <= j])]

\* The span accepted when the candidates are tried in the order x, y, z.
Preferring(x, y, z) ==
    IF ParsingIndexes(x) # {} THEN FirstParsing(x)
    ELSE IF ParsingIndexes(y) # {} THEN FirstParsing(y)
    ELSE IF ParsingIndexes(z) # {} THEN FirstParsing(z)
    ELSE NoMatch

JsonBlocks == FenceMatches(xText, 1, TRUE)
AnyBlocks == FenceMatches(xText, 1, FALSE)
BraceSpan == BasicMatches(xText)

\* A fenced block and the largest brace span both parse, and differ.
FencedAndSpanDiffer ==
    /\ ParsingIndexes(BraceSpan) # {}
    /\ ParsingIndexes(JsonBlocks \o AnyBlocks) # {}
    /\ FirstParsing(JsonBlocks \o AnyBlocks) # FirstParsing(BraceSpan)

\* C6 as stated: the extractor prefers (a) the content of a JSON-labeled
\* fenced block, then (b) the content of any fenced block, then (c) the
\* largest brace-delimited span, and returns the first that parses; where a
\* fenced block and the brace span both parse and differ, the fenced
\* block's content is returned.
C6_FencedBlockPreferred ==
    xDone =>
        /\ xOut = Preferring(JsonBlocks, AnyBlocks, BraceSpan)
        /\ FencedAndSpanDiffer => xOut = FirstParsing(JsonBlocks \o AnyBlocks)

\* C6 amended: the extractor prefers (c) the largest brace-delimited span of
\* the raw text, then (a) the content of a JSON-labeled fenced block, then
\* (b) the content of any fenced block, and returns the first that parses;
\* where a fenced block and the brace span both parse and differ, the brace
\* span is returned.
C6_BraceSpanPreferred ==
    xDone =>
        /\ xOut = Preferring(BraceSpan, JsonBlocks, AnyBlocks)
        /\ FencedAndSpanDiffer => xOut = FirstParsing(BraceSpan)

C6_Witness_SpanWinsOverFence ==
    /\ xDone
    /\ FencedAndSpanDiffer
    /\ xOut.found
    /\ xOut.json_str = xText
    /\ xText = <<LB, K_D, Q, FENCE, LB, RB, FENCE, Q, RB>>

(***************************************************************************)
(* SpecStale: the staleness filter of LegislatorDiscovery on one person    *)
(* file.  Times are seconds.  An end_date is [form, at]: an ISO string     *)
(* ("str"), a date the YAML loader already parsed ("date"), or a string    *)
(* that is no date ("text").                                               *)
(***************************************************************************)
RetentionDays == 365
SecondsPerDay == 24 * 60 * 60
NowEpoch == 1000 * 1000 * 1000
AgeSlack == 2

\* datetime.fromisoformat(end_date.replace('Z', '+00:00')) raises TypeError
\* on a date object and ValueError on a string that is no ISO date.
EndDateParses(end_date) == end_date.form = "str"

_has_active_legislative_role(roles, now) ==
    \E i \in 1..Len(roles) :
        /\ Get(roles[i], "type", "") \in LegislativeTypes
        /\ \/ "end_date" \notin DOMAIN roles[i]
           \/ ~EndDateParses(roles[i].end_date)
           \/ roles[i].end_date.at > now

AtThreshold_needs_update(record, force_update, now) ==
    IF ~record.exists THEN TRUE
    ELSE IF force_update THEN TRUE
    ELSE record.mtime <= now - RetentionDays * SecondsPerDay

\* A staleness test that sends an error record back to research at once.
ErrorsAgain_needs_update(record, force_update, now) ==
    IF ~record.exists THEN TRUE
    ELSE IF force_update THEN TRUE
    ELSE IF record.content = "error" THEN TRUE
    ELSE record.mtime < now - RetentionDays * SecondsPerDay

_needs_update(record, force_update, now) ==
    IF ~record.exists THEN TRUE
    ELSE IF force_update THEN TRUE
    ELSE record.mtime < now - RetentionDays * SecondsPerDay

\* Lines 73-91 of _process_legislator_file: whether an info is returned.
_process_legislator_file(roles, record, force_update, now) ==
    IF ~_has_active_legislative_role(roles, now) THEN FALSE
    ELSE _needs_update(record, force_update, now) \/ force_update

Ended(form, at) ==
    [type |-> "lower", jurisdiction |-> "tx", district |-> "12",
     end_date |-> [form |-> form, at |-> at]]

RolesChoices ==
    { <<>>,
      <<OpenRole>>,
      <<[type |-> "governor", jurisdiction |-> "ak"]>>,
      <<Ended("str", NowEpoch - SecondsPerDay)>>,
      <<Ended("str", NowEpoch + SecondsPerDay)>>,
      <<Ended("date", NowEpoch - SecondsPerDay)>>,
      <<Ended("date", NowEpoch + SecondsPerDay)>>,
      <<Ended("text", 0)>>,
      <<Ended("str", NowEpoch - SecondsPerDay), OpenRole>> }

Ages ==
    {0, 364 * SecondsPerDay}
    \cup {RetentionDays * SecondsPerDay + k : k \in (0 - AgeSlack)..AgeSlack}

RecordFiles ==
    {[exists |-> FALSE, mtime |-> 0]}
    \cup {[exists |-> TRUE, mtime |-> NowEpoch - a] : a \in Ages}

InitStale ==
    /\ dRoles \in RolesChoices
    /\ dRecord \in RecordFiles
    /\ dForce \in BOOLEAN
    /\ dNow = NowEpoch
    /\ dPc = "start"
    /\ dNeeds = FALSE
    /\ dSelected = FALSE
    /\ xText = <<>>
    /\ xOut = NoMatch
    /\ xDone = FALSE
    /\ subject = NullValue
    /\ environ = EmptyObj
    /\ pc = "off"
    /\ attempt = 0
    /\ nCalls = 0
    /\ trace = <<>>
    /\ prompts = <<>>
    /\ result = [kind |-> "none"]
    /\ clock = 0
    /\ startedAt = 0
    /\ IdleDiscover
    /\ IdleBatch
    /\ IdleCost
    /\ IdleEnhanced

\* _needs_update called on the record path of the file.
NeedsUpdate ==
    /\ dPc = "start"
    /\ dNeeds' = _needs_update(dRecord, dForce, dNow)
    /\ dPc' = "checked"
    /\ UNCHANGED <<dRoles, dRecord, dForce, dNow, dSelected, xVars, rVars, gVars, bVars, cVars, eVars>>

\* _process_legislator_file on the file.
ProcessLegislatorFile ==
    /\ dPc = "start"
    /\ dSelected' = _process_legislator_file(dRoles, dRecord, dForce, dNow)
    /\ dNeeds' = IF _has_active_legislative_role(dRoles, dNow)
                 THEN _needs_update(dRecord, dForce, dNow) ELSE dNeeds
    /\ dPc' = "done"
    /\ UNCHANGED <<dRoles, dRecord, dForce, dNow, xVars, rVars, gVars, bVars, cVars, eVars>>

NextStale == NeedsUpdate \/ ProcessLegislatorFile

SpecStale == InitStale /\ [][NextStale]_vars

\* The age of the stored record, in seconds.
RecordAge == dNow - dRecord.mtime

\* Some legislative role of the file has no end date, or one in the future.
HasActiveRole ==
    \E i \in 1..Len(dRoles) :
        /\ dRoles[i].type \in {"upper", "lower", "legislature"}
        /\ \/ "end_date" \notin DOMAIN dRoles[i]
           \/ (dRoles[i].end_date.form \in {"str", "date"} /\ dRoles[i].end_date.at > dNow)

MaxFiles == 2
MaxLegislators == 2

\* Lines 137-163 of _create_legislator_info.
_create_legislator_info(person_data, state, filename) ==
    LET partyList == Get(person_data, "party", <<>>)
        roles == Get(person_data, "roles", <<>>)
        stop == FirstOpenRole(roles)
    IN [id |-> Get(person_data, "id", ""),
        name |-> Get(person_data, "name", "Unknown"),
        state |-> state,
        filename |-> filename,
        party |-> IF partyList # <<>> THEN Get(partyList[1], "name", "Unknown") ELSE "Unknown",
        district |-> IF stop # 0 THEN Get(roles[stop], "district", "") ELSE "",
        chamber |-> IF stop # 0 THEN Get(roles[stop], "type", "legislature") ELSE "legislature"]

DiscoverRoles ==
    { <<OpenRole>>,
      <<[type |-> "governor", jurisdiction |-> "ak"]>>,
      <<Ended("str", NowEpoch - SecondsPerDay)>>,
      <<Ended("str", NowEpoch + SecondsPerDay)>>,
      <<Ended("date", NowEpoch - SecondsPerDay)>>,
      <<Ended("str", NowEpoch - SecondsPerDay), OpenRole>> }

DiscoverRecords ==
    { [exists |-> FALSE, mtime |-> 0],
      [exists |-> TRUE, mtime |-> NowEpoch - 364 * SecondsPerDay],
      [exists |-> TRUE, mtime |-> NowEpoch - (RetentionDays * SecondsPerDay + 1)] }

\* A file open or yaml.safe_load raise on, an empty document, which loads
\* as None, and a document whose only role entry is empty.
BrokenFiles ==
    { [state |-> "tx", readable |-> FALSE, person_data |-> NullValue,
       record |-> [exists |-> FALSE, mtime |-> 0]],
      [state |-> "tx", readable |-> TRUE, person_data |-> NullValue,
       record |-> [exists |-> FALSE, mtime |-> 0]],
      [state |-> "tx", readable |-> TRUE,
       person_data |-> [id |-> "ocd-person/8", name |-> "Al Roe", roles |-> <<NullValue>>],
       record |-> [exists |-> FALSE, mtime |-> 0]] }

PersonFiles ==
    { [state |-> "tx", readable |-> TRUE,
       person_data |-> [id |-> "ocd-person/7", name |-> "Pat Doe", roles |-> r],
       record |-> f] : r \in DiscoverRoles, f \in DiscoverRecords }
    \cup BrokenFiles

RECURSIVE FileLists(_)
FileLists(n) ==
    IF n = 0 THEN {<<>>}
    ELSE LET shorter == FileLists(n - 1)
         IN shorter \cup {Append(l, f) : l \in {k \in shorter : Len(k) = n - 1}, f \in PersonFiles}

\* random.shuffle: every order of the list.
Shuffles(list) ==
    LET n == Len(list)
        perms == {p \in [1..n -> 1..n] : \A i, j \in 1..n : p[i] = p[j] => i = j}
    IN {[i \in 1..n |-> list[p[i]]] : p \in perms}

\* list[:limit], limit >= 0
Prefix(list, limit) ==
    IF limit >= Len(list) THEN list ELSE SubSeq(list, 1, limit)

InitDiscover ==
    /\ gFiles \in FileLists(MaxFiles)
    /\ gForce \in BOOLEAN
    /\ gMax \in 0..MaxLegislators
    /\ gNow = NowEpoch
    /\ gNext = 1
    /\ gLegislators = <<>>
    /\ gSelected = <<>>
    /\ gPc = "files"
    /\ IdleExtract
    /\ IdleResearch
    /\ IdleStale
    /\ IdleBatch
    /\ IdleCost
    /\ IdleEnhanced

\* Lines 70-74 raise inside the try of _process_legislator_file: open or
\* yaml.safe_load raise on the file, the document is no mapping, or the
\* loop of _has_active_legislative_role reaches a role that is no mapping
\* before it returned.
FileRaises(file, now) ==
    \/ ~file.readable
    \/ ~IsMap(file.person_data)
    \/ LET roles == Get(file.person_data, "roles", <<>>)
       IN \E i \in 1..Len(roles) :
              /\ ~IsMap(roles[i])
              /\ ~_has_active_legislative_role(SubSeq(roles, 1, i - 1), now)

\* A loop that loses the subjects found so far when a file raises.
DroppingOnError_AfterFile(legislators, file, filename, force_update, now) ==
    IF FileRaises(file, now)
    THEN <<>>
    ELSE IF _process_legislator_file(Get(file.person_data, "roles", <<>>), file.record,
                                     force_update, now)
         THEN Append(legislators, _create_legislator_info(file.person_data, file.state, filename))
         ELSE legislators

\* Lines 48-55 with lines 69-95: the list legislators after one file.  The
\* except clause of line 93 returns None for a file that raised, and
\* nothing is appended for it.
AfterFile(legislators, file, filename, force_update, now) ==
    IF FileRaises(file, now)
    THEN legislators
    ELSE IF _process_legislator_file(Get(file.person_data, "roles", <<>>), file.record,
                                     force_update, now)
         THEN Append(legislators, _create_legislator_info(file.person_data, file.state, filename))
         ELSE legislators

\* Lines 47-55: one pass of the loop over yaml_files.
DiscoverFile ==
    /\ gPc = "files"
    /\ gNext <= Len(gFiles)
    /\ gLegislators' = AfterFile(gLegislators, gFiles[gNext], gNext, gForce, gNow)
    /\ gNext' = gNext + 1
    /\ UNCHANGED <<gFiles, gForce, gMax, gNow, gSelected, gPc, xVars, rVars, dVars, bVars, cVars, eVars>>

\* Lines 57-65: shuffle, limit to max_legislators, return.
ShuffleAndLimit ==
    /\ gPc = "files"
    /\ gNext > Len(gFiles)
    /\ \E shuffled \in Shuffles(gLegislators) :
           gSelected' = Prefix(shuffled, gMax)
    /\ gPc' = "done"
    /\ UNCHANGED <<gFiles, gForce, gMax, gNow, gNext, gLegislators, xVars, rVars, dVars, bVars, cVars, eVars>>

NextDiscover == DiscoverFile \/ ShuffleAndLimit

SpecDiscover == InitDiscover /\ [][NextDiscover]_vars

\* The role is of a legislative type.
IsLegislative(role) == role.type \in {"upper", "lower", "legislature"}

\* The role's end date is a date, written as a string or as a YAML date,
\* that lies before the run.
EndedInPast(role, now) ==
    /\ "end_date" \in DOMAIN role
    /\ role.end_date.form \in {"str", "date"}
    /\ role.end_date.at < now

\* The role's end date is absent or lies after the run.
AbsentOrFuture(role, now) ==
    \/ "end_date" \notin DOMAIN role
    \/ (role.end_date.form \in {"str", "date"} /\ role.end_date.at > now)

\* No role of the subject qualifies: it has no legislative role, or every
\* legislative role ended in the past.
NoQualifyingRole(roles, now) ==
    \A i \in 1..Len(roles) : IsLegislative(roles[i]) => EndedInPast(roles[i], now)

\* C11: a subject with no qualifying current role never appears in the list
\* of subjects to research, in whatever form its end dates are written.
C11_NoCurrentRoleExcluded ==
    \A k \in 1..Len(gLegislators) :
        ~NoQualifyingRole(gFiles[gLegislators[k].filename].person_data.roles, gNow)

\* Index of the current role of the specification: the first legislative
\* role whose end date is absent or in the future; 0 if there is none.
CurrentRole(roles, now) ==
    LET hits == {i \in 1..Len(roles) : IsLegislative(roles[i]) /\ AbsentOrFuture(roles[i], now)}
    IN IF hits = {} THEN 0 ELSE CHOOSE i \in hits : \A k \in hits : i <= k

\* C12: a listed subject's chamber and district are those of its current
\* role, the first legislative role whose end date is absent or in the
\* future.
C12_InfoFromCurrentRole ==
    \A k \in 1..Len(gLegislators) :
        LET roles == gFiles[gLegislators[k].filename].person_data.roles
            cur == CurrentRole(roles, gNow)
        IN cur # 0 =>
               /\ gLegislators[k].chamber = roles[cur].type
               /\ gLegislators[k].district = roles[cur].district

(***************************************************************************)
(* SpecBatch: main and run of simple_researcher over the person files of   *)
(* a directory.  A stored record is [exists, mtime, content]; content is   *)
(* "prior" for a record of an earlier run, "success" or "error" for the    *)
(* record this run wrote.  A visit is what one pass of the loop of run did *)
(* to a person: whether research_legislator was called, the kind of record *)
(* it returned, whether the record was written, and the exception raised.  *)
(***************************************************************************)
MaxBatchFiles == 3

BatchRoles == { <<OpenRole>>, <<Ended("str", NowEpoch - SecondsPerDay)>> }

BatchFiles ==
    { [state |-> "tx", person_data |-> [id |-> "ocd-person/7", name |-> "Pat Doe", roles |-> r],
       record |-> f] : r \in BatchRoles, f \in DiscoverRecords }

RECURSIVE BatchLists(_)
BatchLists(n) ==
    IF n = 0 THEN {<<>>}
    ELSE LET shorter == BatchLists(n - 1)
         IN shorter \cup {Append(l, f) : l \in {k \in shorter : Len(k) = n - 1}, f \in BatchFiles}

\* What the environment does during one _research_person: whether the
\* person file still loads, what research_legislator returns (it returns a
\* record on every path for a document that passed the role check), and
\* whether the record file can be written.
PersonOutcomes ==
    { [load |-> FALSE, research |-> "none", write |-> FALSE] }
    \cup { [load |-> TRUE, research |-> r, write |-> w] : r \in {"success", "error"}, w \in BOOLEAN }

\* Lines 93-117 of _process_person_file: whether a person info is returned.
_process_person_file(person_data, record, now) ==
    IF ~_has_active_legislative_role(Get(person_data, "roles", <<>>), now) THEN FALSE
    ELSE ~record.exists

RECURSIVE SelectPeople(_, _, _)
\* Lines 78-85 of _find_people_to_research: the indexes of the files for
\* which _process_person_file returns an info, in the order of the glob.
SelectPeople(files, i, now) ==
    IF i > Len(files) THEN <<>>
    ELSE IF _process_person_file(files[i].person_data, files[i].record, now)
         THEN <<i>> \o SelectPeople(files, i + 1, now)
         ELSE SelectPeople(files, i + 1, now)

\* Lines 170-196 of _research_person.
_research_person(has_key, outcome) ==
    IF ~has_key
    THEN [started |-> FALSE, record |-> "none", persisted |-> FALSE, raised |-> "credential"]
    ELSE IF ~outcome.load
    THEN [started |-> FALSE, record |-> "none", persisted |-> FALSE, raised |-> "load"]
    ELSE IF ~outcome.write
    THEN [started |-> TRUE, record |-> outcome.research, persisted |-> FALSE, raised |-> "write"]
    ELSE [started |-> TRUE, record |-> outcome.research, persisted |-> TRUE, raised |-> "none"]

\* A run that stops at the first error record instead of going on.
AbortOnErrorRecord(visit, processed) ==
    [processed |-> IF visit.raised = "none" THEN processed + 1 ELSE processed,
     pc |-> IF visit.record = "error" THEN "exited" ELSE "loop"]

\* Lines 52-58 of run: processed counts the persons _research_person
\* returned for; an exception is logged and the loop continues.
AfterPerson(visit, processed) ==
    [processed |-> IF visit.raised = "none" THEN processed + 1 ELSE processed,
     pc |-> "loop"]

InitBatch ==
    /\ bFiles \in BatchLists(MaxBatchFiles)
    /\ bEnv \in [key : BOOLEAN, max_people : 0..MaxBatchFiles, roots : BOOLEAN, now : {NowEpoch}]
    /\ ~bEnv.roots => bFiles = <<>>
    /\ bPeople = <<>>
    /\ bPos = 1
    /\ bProcessed = 0
    /\ bStore = [i \in 1..Len(bFiles) |->
                    [exists |-> bFiles[i].record.exists, mtime |-> bFiles[i].record.mtime,
                     content |-> "prior"]]
    /\ bEvents = <<>>
    /\ bPc = "main"
    /\ bExit = 0
    /\ bAgain = EmptyObj
    /\ IdleExtract
    /\ IdleResearch
    /\ IdleStale
    /\ IdleDiscover
    /\ IdleCost
    /\ IdleEnhanced

\* Lines 208-215 of main: a path that does not exist ends the process.
Main ==
    /\ bPc = "main"
    /\ IF bEnv.roots
       THEN bPc' = "find" /\ bExit' = bExit
       ELSE bPc' = "exited" /\ bExit' = 1
    /\ UNCHANGED <<bFiles, bEnv, bPeople, bPos, bProcessed, bStore, bEvents, bAgain,
                   xVars, rVars, dVars, gVars, cVars, eVars>>

\* Lines 38-44 of run with _find_people_to_research: an empty list ends
\* the run, and main falls off its end.
FindPeople ==
    /\ bPc = "find"
    /\ \E shuffled \in Shuffles(SelectPeople(bFiles, 1, bEnv.now)) :
           /\ bPeople' = shuffled
           /\ bPc' = IF shuffled = <<>> THEN "exited" ELSE "loop"
    /\ UNCHANGED <<bFiles, bEnv, bPos, bProcessed, bStore, bEvents, bExit, bAgain,
                   xVars, rVars, dVars, gVars, cVars, eVars>>

\* Lines 48-58 of run: one pass of the loop.
ResearchPerson(outcome) ==
    /\ bPc = "loop"
    /\ bPos <= Len(bPeople)
    /\ bProcessed < bEnv.max_people
    /\ LET who == bPeople[bPos]
           visit == _research_person(bEnv.key, outcome)
           after == AfterPerson(visit, bProcessed)
       IN /\ bEvents' = Append(bEvents, [who |-> who] @@ visit)
          /\ bStore' = IF visit.persisted
                       THEN [bStore EXCEPT ![who] =
                                [exists |-> TRUE, mtime |-> bEnv.now, content |-> visit.record]]
                       ELSE bStore
          /\ bProcessed' = after.processed
          /\ bPc' = after.pc
    /\ bPos' = bPos + 1
    /\ UNCHANGED <<bFiles, bEnv, bPeople, bExit, bAgain, xVars, rVars, dVars, gVars, cVars, eVars>>

\* Lines 49-50 and 60 of run, 219-222 of main: the loop ends at the end of
\* the list or at max_people; run returns and main falls off its end.
EndRun ==
    /\ bPc = "loop"
    /\ bPos > Len(bPeople) \/ bProcessed >= bEnv.max_people
    /\ bPc' = "exited"
    /\ UNCHANGED <<bFiles, bEnv, bPeople, bPos, bProcessed, bStore, bEvents, bExit, bAgain,
                   xVars, rVars, dVars, gVars, cVars, eVars>>

\* How long after this run the following run starts: a day, exactly the
\* retention window, or a second more than the window.
LaterTimes ==
    {SecondsPerDay, RetentionDays * SecondsPerDay, RetentionDays * SecondsPerDay + 1}

\* The run that follows this one over the same person files and the record
\* files this one left: the files for which _process_legislator_file of
\* LegislatorDiscovery, without force_update, returns an info
\* (legislator_discovery.py lines 73-91), and those for which
\* _process_person_file of SimpleResearcher does.
FollowingRun ==
    /\ bPc = "exited"
    /\ bEnv.roots
    /\ \E after \in LaterTimes :
           LET later == bEnv.now + after
           IN bAgain' =
                  [later |-> later,
                   discovery |-> {i \in 1..Len(bFiles) :
                                     _process_legislator_file(Get(bFiles[i].person_data, "roles", <<>>),
                                                              bStore[i], FALSE, later)},
                   simple |-> {i \in 1..Len(bFiles) :
                                  _process_person_file(bFiles[i].person_data, bStore[i], later)}]
    /\ bPc' = "followed"
    /\ UNCHANGED <<bFiles, bEnv, bPeople, bPos, bProcessed, bStore, bEvents, bExit,
                   xVars, rVars, dVars, gVars, cVars, eVars>>

NextBatch ==
    \/ Main
    \/ FindPeople
    \/ \E outcome \in PersonOutcomes : ResearchPerson(outcome)
    \/ EndRun
    \/ FollowingRun

SpecBatch == InitBatch /\ [][NextBatch]_vars

(***************************************************************************)
(* Properties of the batch run, checked under SpecBatch.                   *)
(***************************************************************************)
\* The visits in which research_legislator was called.
StartedVisits == {p \in 1..Len(bEvents) : bEvents[p].started}

\* The run is over and it went through main's checks.
RunEnded == bPc = "exited" /\ bEnv.roots

\* C13: a subject whose research fails does not abort the run.  The error
\* record research returned is the record stored for the subject once it is
\* written, the subject counts as processed, and the run ends only at the
\* end of the list or at the maximum, with status zero.
C13_ResearchFailureDoesNotAbort ==
    /\ \A p \in 1..Len(bEvents) :
           (bEvents[p].record = "error" /\ bEvents[p].raised = "none") =>
               /\ bStore[bEvents[p].who].exists
               /\ bStore[bEvents[p].who].content = "error"
    /\ RunEnded =>
           /\ Len(bEvents) = Len(bPeople) \/ bProcessed >= bEnv.max_people
           /\ bProcessed = Cardinality({p \in 1..Len(bEvents) : bEvents[p].raised = "none"})
           /\ bExit = 0

C13_Witness_ErrorThenNext ==
    /\ RunEnded
    /\ Len(bEvents) = 3
    /\ bEvents[1].record = "error"
    /\ bEvents[1].persisted
    /\ bStore[bEvents[1].who].content = "error"
    /\ bEvents[2].started
    /\ bEvents[3].started

\* C14: a record that cannot be written aborts the run: the visit of the
\* failed write is the last one, and the process ends with a status other
\* than zero.
C14_WriteFailureAborts ==
    \A p \in 1..Len(bEvents) :
        bEvents[p].raised = "write" =>
            /\ p = Len(bEvents)
            /\ bPc = "exited" => bExit # 0

\* C15: a run that hits a missing credential or an unreadable input root
\* ends with a status other than zero.
C15_UnhandledErrorExitsNonZero ==
    (/\ bPc = "exited"
     /\ \/ ~bEnv.roots
        \/ \E p \in 1..Len(bEvents) : bEvents[p].raised = "credential")
    => bExit # 0

\* C16: research of a subject is started only after the record of every
\* subject researched before it has been written.
C16_NextStartsAfterPersist ==
    \A p, q \in StartedVisits : p < q => bEvents[p].persisted

\* C17: the number of subjects research_legislator is called for never
\* exceeds max_people.
C17_MaxBoundsResearch == Cardinality(StartedVisits) <= bEnv.max_people

\* The stored record of file i is older than the retention window at the
\* start of the run.
OlderThanWindow(i) ==
    /\ bFiles[i].record.exists
    /\ bEnv.now - bFiles[i].record.mtime > 365 * 86400

\* C18: a record younger than 365 days is never overwritten, and a record
\* older than that, of a subject with an active role, is replaced by a run
\* that reaches every listed subject and writes every record.
C18_ReplacedOnlyWhenStale ==
    /\ \A i \in 1..Len(bFiles) :
           (bFiles[i].record.exists /\ ~OlderThanWindow(i)) =>
               bStore[i] = [exists |-> TRUE, mtime |-> bFiles[i].record.mtime, content |-> "prior"]
    /\ (/\ RunEnded
        /\ bEnv.key
        /\ bEnv.max_people >= Len(bFiles)
        /\ \A p \in 1..Len(bEvents) : bEvents[p].persisted)
       => \A i \in 1..Len(bFiles) :
              (OlderThanWindow(i) /\ bFiles[i].person_data.roles = <<OpenRole>>) =>
                  bStore[i].content # "prior"

(***************************************************************************)
(* SpecCost: consolidate_results of ResultsConsolidator over the record    *)
(* files found under data.  A record file is the value json.load returns   *)
(* for it, a mapping from its keys, or NullValue when it cannot be loaded. *)
(* A token count or tokens_used value is tagged with its JSON type.        *)
(* Costs are kept in millionths of a dollar, the summary's estimated cost  *)
(* in cents, so that the arithmetic of the source stays in the integers.   *)
(***************************************************************************)
MaxRecords == 2
MaxRuns == 2

IntVal(n) == [t |-> "int", v |-> n]
TextVal(s) == [t |-> "str", v |-> s]
BoolVal(b) == [t |-> "bool", v |-> b]
DictVal(d) == [t |-> "dict", v |-> d]

\* Python divides and multiplies an int or a bool; anything else raises
\* TypeError.
IsNumber(x) == x.t \in {"int", "bool"}
NumberOf(x) == IF x.t = "bool" THEN (IF x.v THEN 1 ELSE 0) ELSE x.v

\* An estimate with the two prices exchanged.
SwappedPrices_estimate_cost(data) ==
    LET metadata == Get(data, "processing_metadata", EmptyObj)
        tokens_used == Get(metadata, "tokens_used", DictVal(EmptyObj))
    IN IF tokens_used.t = "dict"
       THEN LET input_tokens == Get(tokens_used.v, "input_tokens", IntVal(0))
                output_tokens == Get(tokens_used.v, "output_tokens", IntVal(0))
            IN IF IsNumber(input_tokens) /\ IsNumber(output_tokens)
               THEN NumberOf(input_tokens) * 15 + NumberOf(output_tokens) * 3
               ELSE 0
       ELSE 0

\* Lines 110-129 of _estimate_cost, in millionths of a dollar.
_estimate_cost(data) ==
    LET metadata == Get(data, "processing_metadata", EmptyObj)
        tokens_used == Get(metadata, "tokens_used", DictVal(EmptyObj))
    IN IF tokens_used.t = "dict"
       THEN LET input_tokens == Get(tokens_used.v, "input_tokens", IntVal(0))
                output_tokens == Get(tokens_used.v, "output_tokens", IntVal(0))
            IN IF IsNumber(input_tokens) /\ IsNumber(output_tokens)
               THEN NumberOf(input_tokens) * 3 + NumberOf(output_tokens) * 15
               ELSE 0
       ELSE 0

\* round(total_cost, 2), in cents.  No total of the record sets below lies
\* half-way between two cents.
RoundToCents(total_cost) == (total_cost + 5000) \div 10000

\* The strings of the records below, in the order Python compares them.
StrOrder == <<"Al Roe", "Pat Doe", "Unknown", "ak", "tx">>
Rank(s) == CHOOSE i \in 1..Len(StrOrder) : StrOrder[i] = s

\* (x['state'], x['name']) of a is less than or equal to that of b.
KeyAtMost(a, b) ==
    \/ Rank(a.state) < Rank(b.state)
    \/ (a.state = b.state /\ Rank(a.name) <= Rank(b.name))

RECURSIVE SortedResults(_)
\* sorted(results, key=...): a stable sort.
SortedResults(results) ==
    IF results = <<>> THEN <<>>
    ELSE LET n == Len(results)
             front == SortedResults(SubSeq(results, 1, n - 1))
             last == results[n]
             keep == {i \in 1..Len(front) : KeyAtMost(front[i], last)}
             at == IF keep = {} THEN 0 ELSE CHOOSE i \in keep : \A k \in keep : k <= i
         IN SubSeq(front, 1, at) \o <<last>> \o SubSeq(front, at + 1, Len(front))

RECURSIVE SumOf(_, _)
SumOf(results, field) ==
    IF results = <<>> THEN 0
    ELSE results[1][field] + SumOf(Tail(results), field)

\* Lines 131-150 of _generate_summary; now is datetime.now().
_generate_summary(results, state_stats, total_cost, now) ==
    [run_date |-> now,
     total_processed |-> Len(results),
     successful |-> Cardinality({i \in 1..Len(results) : ~results[i].has_error}),
     errors |-> Cardinality({i \in 1..Len(results) : results[i].has_error}),
     total_issues |-> SumOf(results, "issues_count"),
     total_donors |-> SumOf(results, "donors_count"),
     estimated_cost_cents |-> RoundToCents(total_cost),
     by_state |-> state_stats,
     legislators |-> SortedResults(results)]

\* A value of a record file that json.load tagged with its JSON type: a
\* list, or null where a list or a mapping was expected.
ListVal(l) == [t |-> "list", v |-> l]
NoneVal == [t |-> "null", v |-> 0]

SomeDonors ==
    [top_companies |-> ListVal(<<"c1">>), top_industries |-> ListVal(<<"i1">>),
     ideological_donors |-> ListVal(<<"p1", "p2">>), individual_donors |-> ListVal(<<"d1">>)]

\* The same companies and ideological donors, more of the other two lists.
MoreIndividuals ==
    [top_companies |-> ListVal(<<"c1">>), top_industries |-> ListVal(<<"i1", "i2">>),
     ideological_donors |-> ListVal(<<"p1", "p2">>),
     individual_donors |-> ListVal(<<"d1", "d2", "d3">>)]

\* processing_metadata as research_legislator writes it: with the usage
\* counts, with "unknown" counts, or the metadata of an error record; and
\* as another writer may have left it.
MetadataChoices ==
    { [model |-> ModelId, tokens_used |-> DictVal([input_tokens |-> IntVal(1200), output_tokens |-> IntVal(450)])],
      [model |-> ModelId, tokens_used |-> DictVal([input_tokens |-> IntVal(1000000), output_tokens |-> IntVal(1000000)])],
      [model |-> ModelId, tokens_used |-> DictVal([input_tokens |-> TextVal("unknown"), output_tokens |-> TextVal("unknown")])],
      [model |-> ModelId, tokens_used |-> DictVal([input_tokens |-> IntVal(1200), output_tokens |-> TextVal("unknown")])],
      [model |-> ModelId, tokens_used |-> DictVal([input_tokens |-> BoolVal(TRUE), output_tokens |-> IntVal(450)])],
      [model |-> ModelId, tokens_used |-> TextVal("unknown")],
      [model |-> ModelId] }

\* The record files: one that does not load, an empty object, an error
\* record, records the extractor accepted without any schema check (keys
\* absent, or null where a list or a mapping is expected), and records with
\* each kind of processing_metadata.
RecordFilesFound ==
    { NullValue, EmptyObj,
      [name |-> "Al Roe", state |-> "ak", error |-> "Connection error.", issues |-> ListVal(<<>>),
       donors |-> DictVal([top_companies |-> ListVal(<<>>), top_industries |-> ListVal(<<>>),
                           ideological_donors |-> ListVal(<<>>), individual_donors |-> ListVal(<<>>)]),
       processing_metadata |-> [model |-> ModelId, error |-> TRUE]],
      [name |-> "Al Roe", state |-> "ak"],
      [name |-> "Al Roe", state |-> "ak", issues |-> ListVal(<<"i1">>),
       donors |-> DictVal([top_companies |-> NoneVal, ideological_donors |-> ListVal(<<"p1">>)])],
      [name |-> "Pat Doe", issues |-> ListVal(<<"i1">>), donors |-> DictVal(SomeDonors)],
      [name |-> "Pat Doe", state |-> "tx", issues |-> ListVal(<<"i1">>), donors |-> DictVal(MoreIndividuals)],
      [name |-> "Pat Doe", state |-> "tx", issues |-> NoneVal, donors |-> DictVal(SomeDonors)],
      [name |-> "Pat Doe", state |-> "tx", issues |-> ListVal(<<"i1">>), donors |-> NoneVal] }
    \cup { [name |-> "Pat Doe", state |-> "tx", issues |-> ListVal(<<"i1">>), donors |-> DictVal(SomeDonors),
            processing_metadata |-> m] : m \in MetadataChoices }

RECURSIVE RecordLists(_)
RecordLists(n) ==
    IF n = 0 THEN {<<>>}
    ELSE LET shorter == RecordLists(n - 1)
         IN shorter \cup {Append(l, f) : l \in {k \in shorter : Len(k) = n - 1}, f \in RecordFilesFound}

\* A run that starts from what the run before it accumulated.
CarriedOver(earlier) == earlier

\* Lines 27-29: results, state_stats and total_cost of a run start empty,
\* whatever an earlier run computed.
StartOfRun(earlier) == [results |-> <<>>, stats |-> EmptyObj, total |-> 0]

InitCost ==
    /\ cFiles \in RecordLists(MaxRecords)
    /\ cNext = 1
    /\ cResults = <<>>
    /\ cStats = EmptyObj
    /\ cTotal = 0
    /\ cSummary = EmptyObj
    /\ cPc = "files"
    /\ cRun = 1
    /\ cPrev = EmptyObj
    /\ IdleExtract
    /\ IdleResearch
    /\ IdleStale
    /\ IdleDiscover
    /\ IdleBatch
    /\ IdleEnhanced

\* Every record under the one key "Unknown".
Lumped_StateKey(data) == "Unknown"

\* Line 39: the key of state_stats a record is tallied under.
StateKey(data) == Get(data, "state", "Unknown")

\* len(data.get('issues', [])) of lines 52 and 71 raises TypeError.
issues_raises(data) == Get(data, "issues", ListVal(<<>>)).t # "list"

\* Lines 54-57 raise: donors has no get, or one of the two lists no len.
donors_raises(data) ==
    LET donors == Get(data, "donors", DictVal(EmptyObj))
    IN \/ donors.t # "dict"
       \/ Get(donors.v, "top_companies", ListVal(<<>>)).t # "list"
       \/ Get(donors.v, "ideological_donors", ListVal(<<>>)).t # "list"

\* A donors count over all four lists of donors.
AllLists_donors_count(data) ==
    LET donors == Get(data, "donors", DictVal(EmptyObj)).v
    IN Len(Get(donors, "top_companies", ListVal(<<>>)).v)
       + Len(Get(donors, "ideological_donors", ListVal(<<>>)).v)
       + Len(Get(donors, "top_industries", ListVal(<<>>)).v)
       + Len(Get(donors, "individual_donors", ListVal(<<>>)).v)

\* Lines 54-57: donors_count, where they do not raise.
donors_count(data) ==
    LET donors == Get(data, "donors", DictVal(EmptyObj)).v
    IN Len(Get(donors, "top_companies", ListVal(<<>>)).v)
       + Len(Get(donors, "ideological_donors", ListVal(<<>>)).v)

\* Lines 36-80: the body of the loop for one loaded file, on the three
\* accumulators.  A file that did not load, or loaded as an empty mapping,
\* is passed over.  An exception is caught by the except clause of line 78,
\* which leaves in state_stats what the lines before it already added.
TallyOne(data, tally) ==
    IF ~IsMap(data) \/ data = EmptyObj
    THEN tally
    ELSE LET state == StateKey(data)
             before == IF state \in DOMAIN tally.stats THEN tally.stats[state]
                       ELSE [processed |-> 0, issues |-> 0, donors |-> 0, errors |-> 0]
             Put(entry) == [s \in DOMAIN tally.stats \cup {state} |->
                               IF s = state THEN entry ELSE tally.stats[s]]
             processed == [before EXCEPT !.processed = @ + 1]
         IN IF issues_raises(data)
            THEN [tally EXCEPT !.stats = Put(processed)]
            ELSE LET issues == [processed EXCEPT !.issues = @ + Len(Get(data, "issues", ListVal(<<>>)).v)]
                 IN IF donors_raises(data)
                    THEN [tally EXCEPT !.stats = Put(issues)]
                    ELSE LET has_error == "error" \in DOMAIN data /\ data.error # ""
                             cost == _estimate_cost(data)
                             after == [issues EXCEPT !.donors = @ + donors_count(data),
                                                     !.errors = @ + (IF has_error THEN 1 ELSE 0)]
                         IN [results |-> Append(tally.results,
                                [name |-> Get(data, "name", "Unknown"),
                                 state |-> state,
                                 issues_count |-> Len(Get(data, "issues", ListVal(<<>>)).v),
                                 donors_count |-> donors_count(data),
                                 has_error |-> has_error,
                                 last_updated |-> Get(data, "last_updated", ""),
                                 cost |-> cost]),
                             stats |-> Put(after),
                             total |-> tally.total + cost]

\* Lines 35-80 of consolidate_results: one pass of the loop.
TallyFile ==
    /\ cPc = "files"
    /\ cNext <= Len(cFiles)
    /\ LET tally == TallyOne(cFiles[cNext], [results |-> cResults, stats |-> cStats, total |-> cTotal])
       IN /\ cResults' = tally.results
          /\ cStats' = tally.stats
          /\ cTotal' = tally.total
    /\ cNext' = cNext + 1
    /\ UNCHANGED <<cFiles, cSummary, cPc, cRun, cPrev, xVars, rVars, dVars, gVars, bVars, eVars>>

\* Lines 82-85: the summary is generated and returned.
Summarize ==
    /\ cPc = "files"
    /\ cNext > Len(cFiles)
    /\ cSummary' = _generate_summary(cResults, cStats, cTotal, cRun)
    /\ cPc' = "done"
    /\ UNCHANGED <<cFiles, cNext, cResults, cStats, cTotal, cRun, cPrev, xVars, rVars, dVars, gVars, bVars, eVars>>

\* main is run again, later, over the same files: consolidate_results is
\* entered again (lines 27-32).  cPrev keeps the summary of the run before.
RunAgain ==
    /\ cPc = "done"
    /\ cRun < MaxRuns
    /\ cPrev' = cSummary
    /\ cRun' = cRun + 1
    /\ LET start == StartOfRun([results |-> cResults, stats |-> cStats, total |-> cTotal])
       IN /\ cResults' = start.results
          /\ cStats' = start.stats
          /\ cTotal' = start.total
    /\ cNext' = 1
    /\ cPc' = "files"
    /\ UNCHANGED <<cFiles, cSummary, xVars, rVars, dVars, gVars, bVars, eVars>>

NextCost == TallyFile \/ Summarize \/ RunAgain

SpecCost == InitCost /\ [][NextCost]_vars

(***************************************************************************)
(* Properties of consolidate_results, checked under SpecCost.              *)
(***************************************************************************)
\* The issues and the donors of a record are absent or of the types the
\* record format gives them.
WellTyped(data) ==
    /\ "issues" \in DOMAIN data => data.issues.t = "list"
    /\ "donors" \in DOMAIN data =>
           /\ data.donors.t = "dict"
           /\ \A k \in DOMAIN data.donors.v : data.donors.v[k].t = "list"

\* The files tallied so far that count: those that loaded as a mapping
\* with at least one key and well typed issues and donors.  cResults holds
\* one entry for each, in order.
CountedFiles ==
    SelectSeq(SubSeq(cFiles, 1, cNext - 1),
              LAMBDA data : IsMap(data) /\ data # EmptyObj /\ WellTyped(data))

\* The two token counts of a record, when it has both.
HasCounts(data) ==
    /\ "processing_metadata" \in DOMAIN data
    /\ "tokens_used" \in DOMAIN data.processing_metadata
    /\ data.processing_metadata.tokens_used.t = "dict"
    /\ {"input_tokens", "output_tokens"} \subseteq DOMAIN data.processing_metadata.tokens_used.v

InputCount(data) == data.processing_metadata.tokens_used.v.input_tokens
OutputCount(data) == data.processing_metadata.tokens_used.v.output_tokens

\* The sum of the costs of the counted records.
CostSum == SumOf(cResults, "cost")

Worth(x) == IF x.t = "int" THEN x.v ELSE IF x.v THEN 1 ELSE 0

ListLen(d, key) == IF key \in DOMAIN d THEN Len(d[key].v) ELSE 0

\* C21: the donor count of a counted record is the number of its
\* top_companies plus the number of its ideological_donors, whatever its
\* individual_donors and top_industries hold, and its issue count is the
\* number of its issues; a record without issues or without donors is
\* counted, with 0 for what it lacks; the summary totals these counts.
C21_DonorCountOfTwoLists ==
    /\ Len(cResults) = Len(CountedFiles)
    /\ \A i \in 1..Len(cResults) :
           LET data == CountedFiles[i]
           IN /\ cResults[i].donors_count =
                     IF "donors" \in DOMAIN data
                     THEN ListLen(data.donors.v, "top_companies")
                          + ListLen(data.donors.v, "ideological_donors")
                     ELSE 0
              /\ cResults[i].issues_count = ListLen(data, "issues")
    /\ cPc = "done" =>
           /\ cSummary.total_donors = SumOf(cResults, "donors_count")
           /\ cSummary.total_issues = SumOf(cResults, "issues_count")

C21_Witness_AbsentAndManyIndividuals ==
    /\ cPc = "done"
    /\ Len(cFiles) = 2
    /\ cFiles[1] = [name |-> "Al Roe", state |-> "ak"]
    /\ IsMap(cFiles[2])
    /\ "donors" \in DOMAIN cFiles[2]
    /\ cFiles[2].donors = DictVal(MoreIndividuals)
    /\ Len(cResults) = 2
    /\ cResults[1].issues_count = 0
    /\ cResults[1].donors_count = 0
    /\ cResults[2].donors_count = 3
    /\ cSummary.total_processed = 2
    /\ cSummary.total_donors = 3

\* C22: the legislators listing of the summary is in ascending order of
\* (state, name), and it is the listing the run would have produced had the
\* same files been found in any other order.  An entry of results is
\* computed from its own file alone, so another order of the files is
\* another order of results.
C22_ListingIndependentOfOrder ==
    cPc = "done" =>
        /\ \A i, j \in 1..Len(cSummary.legislators) :
               i < j => KeyAtMost(cSummary.legislators[i], cSummary.legislators[j])
        /\ \A other \in Shuffles(cResults) :
               SortedResults(other) = cSummary.legislators

OwnState(data) == IF "state" \in DOMAIN data THEN data.state ELSE "Unknown"

\* The files passed so far that reached the tally of line 51.
TalliedFiles == {i \in 1..(cNext - 1) : IsMap(cFiles[i]) /\ cFiles[i] # EmptyObj}

\* C24: every tallied record is tallied under its own state field, under
\* "Unknown" when it has none: the processed count of a key of by_state is
\* the number of tallied records of that state, so that no record is
\* tallied under two keys or under another state, and the listing gives each
\* record the same state.
C24_TalliedUnderOwnState ==
    /\ \A i \in TalliedFiles : OwnState(cFiles[i]) \in DOMAIN cStats
    /\ \A s \in DOMAIN cStats :
           cStats[s].processed = Cardinality({i \in TalliedFiles : OwnState(cFiles[i]) = s})
    /\ \A i \in 1..Len(cResults) :
           i <= Len(CountedFiles) => cResults[i].state = OwnState(CountedFiles[i])
    /\ cPc = "done" => cSummary.by_state = cStats

C24_Witness_UnknownAndTx ==
    /\ cPc = "done"
    /\ Len(cFiles) = 2
    /\ IsMap(cFiles[1])
    /\ cFiles[1] # EmptyObj
    /\ "state" \notin DOMAIN cFiles[1]
    /\ IsMap(cFiles[2])
    /\ "state" \in DOMAIN cFiles[2]
    /\ cFiles[2].state = "tx"
    /\ DOMAIN cSummary.by_state = {"Unknown", "tx"}
    /\ cSummary.by_state["Unknown"].processed = 1
    /\ cSummary.by_state["tx"].processed = 1

RECURSIVE SumOverStates(_, _, _)
\* The sum of one count of by_state over a set of its keys.
SumOverStates(stats, keys, field) ==
    IF keys = {} THEN 0
    ELSE LET s == CHOOSE k \in keys : TRUE
         IN stats[s][field] + SumOverStates(stats, keys \ {s}, field)

\* C27: whatever the record files hold, the counts of by_state summed over
\* its keys are the totals of the summary (processed, issues, donors and
\* errors), and successful + errors = total_processed; so a record whose
\* tally raised part-way is in none of the counts.
C27_SummaryConsistent ==
    cPc = "done" =>
        LET by_state == cSummary.by_state
            Total(field) == SumOverStates(by_state, DOMAIN by_state, field)
        IN /\ Total("processed") = cSummary.total_processed
           /\ Total("issues") = cSummary.total_issues
           /\ Total("donors") = cSummary.total_donors
           /\ Total("errors") = cSummary.errors
           /\ cSummary.successful + cSummary.errors = cSummary.total_processed

(***************************************************************************)
(* Further properties of discover_legislators, checked under SpecDiscover. *)
(***************************************************************************)
\* The file cannot be read or parsed into a document with a roles list of
\* mappings.
Broken(file) ==
    \/ ~file.readable
    \/ ~IsMap(file.person_data)
    \/ \E i \in 1..Len(file.person_data.roles) : ~IsMap(file.person_data.roles[i])

\* The filenames listed so far.
ListedFiles == {gLegislators[k].filename : k \in 1..Len(gLegislators)}

\* C25: a file that cannot be read or parsed is passed over and nothing
\* else: discovery goes on to the end of the files without raising, and
\* every other file passed so far that qualifies on its own is listed; with
\* max_legislators large enough the returned list holds them all.
C25_BrokenFileSkippedAlone ==
    /\ gPc \in {"files", "done", "off"}
    /\ \A i \in 1..(gNext - 1) :
           IF Broken(gFiles[i])
           THEN i \notin ListedFiles
           ELSE _process_legislator_file(gFiles[i].person_data.roles, gFiles[i].record, gForce, gNow)
                    <=> i \in ListedFiles
    /\ (gPc = "done" /\ gMax >= Len(gLegislators)) =>
           /\ gNext = Len(gFiles) + 1
           /\ {gSelected[k].filename : k \in 1..Len(gSelected)} = ListedFiles

C25_Witness_GoodAfterBroken ==
    /\ gPc = "done"
    /\ Len(gFiles) = 2
    /\ ~gFiles[1].readable
    /\ IsMap(gFiles[2].person_data)
    /\ gFiles[2].person_data.roles = <<OpenRole>>
    /\ Len(gSelected) = 1
    /\ gSelected[1].filename = 2

(***************************************************************************)
(* Further properties of the batch run, checked under SpecBatch.           *)
(***************************************************************************)
\* The record of file i was written by this run.
WrittenNow(i) == bStore[i].exists /\ bStore[i].content \in {"success", "error"}

C26_SelectionDecidesAsNeedsUpdate ==
    bPc \in {"loop", "exited", "followed"} =>
        \A i \in 1..Len(bFiles) :
            _has_active_legislative_role(bFiles[i].person_data.roles, bEnv.now) =>
                ((\E k \in 1..Len(bPeople) : bPeople[k] = i)
                     <=> _needs_update(bFiles[i].record, FALSE, bEnv.now))

(***************************************************************************)
(* Further properties of research_legislator, checked under Spec.          *)
(***************************************************************************)
\* C29: the state of an error record the researcher built is the
\* jurisdiction the prompts of that research named for the subject, that of
\* its current role, whatever the first entry of its roles list is.
C29_ErrorRecordStateIsPromptState ==
    (/\ pc = "returned"
     /\ prompts # <<>>
     /\ result.kind = "record"
     /\ "error" \in DOMAIN result.meta)
    => result.fields.state = Str(prompts[1].state)

(***************************************************************************)
(* SpecTwin: research_legislator of EnhancedLegislatorResearcher           *)
(* (enhanced_legislator_researcher.py) run on the subject, the environment *)
(* and the service outcomes of research_legislator of LegislatorResearcher.*)
(* The line numbers of this section are those of the enhanced file.  re    *)
(* and json are the same library; the operators below are the enhanced     *)
(* file's own code over them.                                              *)
(***************************************************************************)
\* An enhanced researcher that retries once only.
Enhanced_FewerRetries == 2 - 1

Enhanced_max_retries == 2
EnhancedModelId == "claude-3-5-sonnet-20241022"

\* Lines 58-151 of create_enhanced_research_prompt: the values the template
\* interpolates, as lines 60-73 compute them, and the wording of the
\* template, which is not that of create_research_prompt.
create_enhanced_research_prompt(legislator_data) ==
    IF ~IsMap(legislator_data)
    THEN [ok |-> FALSE, error |-> AttributeErrorNone]
    ELSE
    LET partyList == Get(legislator_data, "party", <<>>)
        roles == Get(legislator_data, "roles", <<>>)
        stop == FirstOpenRole(roles)
    IN IF partyList # <<>> /\ ~IsMap(partyList[1])
       THEN [ok |-> FALSE, error |-> AttributeErrorNone]
       ELSE IF RolesLoopRaises(roles)
       THEN [ok |-> FALSE, error |-> AttributeErrorNone]
       ELSE [ok |-> TRUE,
             prompt |->
               [wording |-> "web search",
                name |-> Get(legislator_data, "name", "Unknown"),
                party |-> IF partyList # <<>>
                          THEN Get(partyList[1], "name", "Unknown") ELSE "Unknown",
                state |-> IF stop # 0
                          THEN Get(roles[stop], "jurisdiction", "Unknown") ELSE "Unknown",
                district |-> IF stop # 0 THEN Get(roles[stop], "district", "") ELSE "",
                chamber |-> IF stop # 0
                            THEN Get(roles[stop], "type", "legislature") ELSE "legislature",
                legislator_id |-> Get(legislator_data, "id", ""),
                retry_attempt |-> 0]]

\* Lines 167-168: the retry instruction names attempt + 1.
EnhancedPromptFor(base, att) ==
    IF att > 0 THEN [base EXCEPT !.retry_attempt = att + 1] ELSE base

\* Lines 171-182 of the enhanced file: the arguments of messages.create.
EnhancedMessagesCreate(prompt) ==
    [model |-> EnhancedModelId,
     max_tokens |-> 4000,
     messages |-> <<[role |-> "user", content |-> prompt]>>,
     tools |-> <<[type |-> "web_search_20250305", name |-> "web_search"]>>]

\* Lines 159-166 of legislator_researcher.py: the arguments of
\* messages.create of LegislatorResearcher.
MessagesCreate(prompt) ==
    [model |-> ModelId,
     max_tokens |-> 3000,
     messages |-> <<[role |-> "user", content |-> prompt]>>]

\* Lines 239-243: the patterns, in the order they are tried.
EnhancedPatterns == <<"basic", "json_block", "generic_block">>

\* Lines 231-261.
Enhanced_extract_json_from_response(response_text) ==
    TryPatterns(EnhancedPatterns, response_text, 1)

\* Lines 263-287.
Enhanced_create_error_response(legislator_data, error_message, env, now) ==
    LET roles == Get(legislator_data, "roles", <<>>)
    IN [kind |-> "record",
        fields |->
          [legislator_id |-> Str(Get(legislator_data, "id", "")),
           name |-> Str(Get(legislator_data, "name", "Unknown")),
           state |-> Str(IF roles # <<>>
                         THEN Get(roles[1], "jurisdiction", "Unknown") ELSE "Unknown"),
           error |-> Str(error_message),
           last_updated |-> Str(ToString(now)),
           issues |-> EmptyList,
           donors |-> ErrorDonors,
           sources |-> EmptyList],
        meta |->
          [processed_date |-> now,
           github_action_run |-> RunId(env),
           error |-> TRUE,
           model |-> EnhancedModelId]]

\* Lines 226-228, the except clause.
EnhancedExceptHandler(legislator_data, e, att, env, now) ==
    IF ~IsMap(legislator_data) THEN Raised(AttributeErrorNone)
    ELSE IF Get(legislator_data, "roles", <<>>) # <<>>
            /\ ~IsMap(Get(legislator_data, "roles", <<>>)[1])
    THEN Raised(AttributeErrorNone)
    ELSE [next |-> "returned",
          result |-> Enhanced_create_error_response(legislator_data, e, env, now)]

\* Lines 198-210: the parsed object with processing_metadata set.
EnhancedDecorate(json_data, usage, env, now) ==
    [kind |-> "record",
     fields |-> WithoutKey(json_data, "processing_metadata"),
     meta |->
       [processed_date |-> now,
        github_action_run |-> RunId(env),
        tokens_used |->
          [input_tokens |-> IF usage.present THEN usage.input_tokens ELSE "unknown",
           output_tokens |-> IF usage.present THEN usage.output_tokens ELSE "unknown"],
        model |-> EnhancedModelId,
        research_type |-> "enhanced_with_web_search"]]

\* Lines 185-189: the text of the first text block of the message.
EnhancedFinalResponse(content) ==
    LET text_blocks == SelectSeq(content, LAMBDA block : block.type = "text")
    IN IF text_blocks # <<>> THEN text_blocks[1].text
       ELSE <<"No text response received">>

\* Lines 194-214: the match is parsed; the parsed object is returned with
\* its metadata, and a match that does not parse raises ValueError.
EnhancedOnMatch(legislator_data, loaded, message, att, env, now) ==
    IF loaded.ok
    THEN [next |-> "returned",
          result |-> EnhancedDecorate(loaded.fields, message.usage, env, now)]
    ELSE EnhancedExceptHandler(legislator_data, "Invalid JSON structure", att, env, now)

\* Lines 194 and 215-224: a match is handled; without one the last attempt
\* raises ValueError and any other attempt continues the loop.
EnhancedOnExtracted(legislator_data, json_match, message, att, env, now) ==
    IF json_match.found
    THEN EnhancedOnMatch(legislator_data, JsonLoads(json_match.json_str), message, att, env, now)
    ELSE IF att = Enhanced_max_retries
         THEN EnhancedExceptHandler(legislator_data,
                  "No valid JSON found in Claude response after all retries", att, env, now)
         ELSE [next |-> "loop", result |-> [kind |-> "none"]]

\* Lines 184-224: what the loop body does with the message of the service.
EnhancedHandleMessage(legislator_data, message, att, env, now) ==
    EnhancedOnExtracted(legislator_data,
        Enhanced_extract_json_from_response(EnhancedFinalResponse(message.content)),
        message, att, env, now)

InitTwin ==
    /\ subject \in Subjects
    /\ environ \in Environs
    /\ pc = "loop"
    /\ attempt = 0
    /\ nCalls = 0
    /\ trace = <<>>
    /\ prompts = <<>>
    /\ result = [kind |-> "none"]
    /\ clock = 0
    /\ startedAt = 0
    /\ ePc = "loop"
    /\ eAttempt = 0
    /\ eCalls = 0
    /\ eRequests = <<>>
    /\ eResult = [kind |-> "none"]
    /\ eClock = 0
    /\ IdleExtract
    /\ IdleStale
    /\ IdleDiscover
    /\ IdleBatch
    /\ IdleCost

\* What one pass of the loop leaves: the position, the returned value and
\* the loop variable.
EnhancedAfter(step) ==
    /\ ePc' = step.next
    /\ eResult' = step.result
    /\ eAttempt' = IF step.next = "loop" THEN eAttempt + 1 ELSE eAttempt

\* One pass of the loop of lines 162-228 of the enhanced file.
EnhancedStep(outcome) ==
    LET built == create_enhanced_research_prompt(subject)
        now == IF built.ok THEN eClock + 1 ELSE eClock
    IN /\ eClock' = now
       /\ eCalls' = IF built.ok THEN eCalls + 1 ELSE eCalls
       /\ eRequests' = IF built.ok
                       THEN Append(eRequests,
                                EnhancedMessagesCreate(EnhancedPromptFor(built.prompt, eAttempt)))
                       ELSE eRequests
       /\ EnhancedAfter(IF ~built.ok
                        THEN EnhancedExceptHandler(subject, built.error, eAttempt, environ, now)
                        ELSE IF outcome.kind = "raise"
                        THEN EnhancedExceptHandler(subject, outcome.message, eAttempt, environ, now)
                        ELSE EnhancedHandleMessage(subject, outcome, eAttempt, environ, now))

\* The service gives one outcome; each researcher that is still in its loop
\* makes its next attempt on it.
TwinAttempt(outcome) ==
    /\ pc = "loop" \/ ePc = "loop"
    /\ IF pc = "loop"
       THEN ResearchStep(outcome)
       ELSE UNCHANGED <<pc, attempt, nCalls, trace, prompts, result, clock>>
    /\ IF ePc = "loop"
       THEN EnhancedStep(outcome)
       ELSE UNCHANGED <<ePc, eAttempt, eCalls, eRequests, eResult, eClock>>
    /\ UNCHANGED <<subject, environ, startedAt, xVars, dVars, gVars, bVars, cVars>>

NextTwin == \E outcome \in Outcomes : TwinAttempt(outcome)

SpecTwin == InitTwin /\ [][NextTwin]_vars

(***************************************************************************)
(* Properties of the two researchers, checked under SpecTwin.              *)
(***************************************************************************)
\* A mapping without some of its keys.
Without(f, keys) == [k \in DOMAIN f \ keys |-> f[k]]

\* The two researchers are at the same point after the same number of
\* attempts and calls, and what they returned is of the same kind: the same
\* exception; or records with the same fields, the error message among
\* them, and the same processing_metadata but for the model, and for
\* research_type, which only the success record of the enhanced one has.
SameProtocol ==
    /\ pc = ePc
    /\ attempt = eAttempt
    /\ nCalls = eCalls
    /\ result.kind = eResult.kind
    /\ result.kind = "exception" => result = eResult
    /\ result.kind = "record" =>
           /\ result.fields = eResult.fields
           /\ Without(eResult.meta, {"model", "research_type"}) = Without(result.meta, {"model"})
           /\ result.meta.model = ModelId
           /\ eResult.meta.model = EnhancedModelId
           /\ "research_type" \in DOMAIN eResult.meta <=> "error" \notin DOMAIN eResult.meta

\* The request of the plain researcher for its i-th prompt.
PlainRequest(i) == MessagesCreate(prompts[i])

\* The prompt of a request without the wording of its template.
Interpolated(request) == Without(request.messages[1].content, {"wording"})

\* C30 as stated: the two researchers follow the same protocol, and
\* differ only in the model identifier, the web-search tool and the
\* research_type field of the metadata: every other argument of their
\* requests is the same (the wording of the prompt template left aside).
C30_DifferOnlyInModelAndTool ==
    /\ SameProtocol
    /\ Len(eRequests) = Len(prompts)
    /\ \A i \in 1..Len(eRequests) :
           /\ Interpolated(eRequests[i]) = Interpolated(PlainRequest(i))
           /\ Without(eRequests[i], {"model", "tools", "messages"})
                  = Without(PlainRequest(i), {"model", "messages"})

\* C30, amended: the two researchers follow the same protocol, and differ
\* in the model identifier, the web-search tool, the research_type field,
\* the max_tokens of the request (3000 against 4000) and the wording of the
\* prompt template; the prompts interpolate the same values and carry the
\* same retry instruction.
C30_SameProtocolOtherRequest ==
    /\ SameProtocol
    /\ Len(eRequests) = Len(prompts)
    /\ \A i \in 1..Len(eRequests) :
           /\ Interpolated(eRequests[i]) = Interpolated(PlainRequest(i))
           /\ DOMAIN eRequests[i] = DOMAIN PlainRequest(i) \cup {"tools"}
           /\ eRequests[i].max_tokens = 4000
           /\ PlainRequest(i).max_tokens = 3000

C30_Witness_BothGiveUpAfterThree ==
    /\ pc = "returned"
    /\ ePc = "returned"
    /\ nCalls = 3
    /\ eCalls = 3
    /\ Len(eRequests) = 3
    /\ eRequests[3].messages[1].content.retry_attempt = 3
    /\ result.kind = "record"
    /\ eResult.kind = "record"
    /\ "error" \in DOMAIN result.fields
    /\ result.fields["error"] = Str("No valid JSON found in Claude response after all retries")
    /\ eResult.fields = result.fields
    /\ eResult.meta.model # result.meta.model

====
